---- MODULE Spec2Model ----
(***************************************************************************)
(* A model of the SEO toolkit's two pieces of logic:                       *)
(*   - the local persistence store (app/utils/storage.client.ts): typed    *)
(*     collections kept as JSON text under fixed localStorage keys;        *)
(*   - the scoring engine (app/utils/seo-helpers.ts): pure functions from  *)
(*     page signals to 0..100 scores.                                      *)
(* JavaScript arrays are modelled as sequences; indexes returned by        *)
(* findIndex are 0-based as in the source (-1: not found).                 *)
(***************************************************************************)
EXTENDS Integers, Sequences, FiniteSets, TLC

VARIABLES
    env,        \* "browser": window and localStorage exist; "server": typeof window === 'undefined'
    storage,    \* localStorage: storage key -> stored item (text or null)
    lastCall,   \* the last store operation called, its arguments and its outcome
    scoreCall,  \* the last scoring function called, its arguments and its result
    ui          \* the mounted page component (its React state, its pending timers), or NoPage

vars == <<env, storage, lastCall, scoreCall, ui>>

(***************************************************************************)
(* Bounds of the model.                                                    *)
(***************************************************************************)
\* entity ids used by the callers of the store specification
MaxId == 3
\* analysis ids of the specification that fills the recent-analyses collection
MaxAnalysisId == 11

Ids == 1..MaxId
\* readings of the clock (new Date().toISOString())
Times == {"T1", "T2"}
\* two readings within one call: the second is not earlier than the first
ClockPairs == { <<"T1", "T1">>, <<"T1", "T2">>, <<"T2", "T2">> }
\* a timestamp field as passed by a caller: no reading of the clock equals it
CallerStamp == "caller"
\* the payload field of an entity (name, keyword, title, mainDomain), which
\* the store copies and never reads
Payloads == {"p"}
\* the score field of an analysis result
Scores == {0, 100}

(***************************************************************************)
(* localStorage and JSON.                                                  *)
(***************************************************************************)
STORAGE_KEYS ==
    [ PROJECTS            |-> "seo-toolkit-projects",
      RECENT_ANALYSES     |-> "seo-toolkit-recent-analyses",
      SAVED_KEYWORDS      |-> "seo-toolkit-saved-keywords",
      SAVED_CONTENT       |-> "seo-toolkit-saved-content",
      COMPETITOR_ANALYSES |-> "seo-toolkit-competitor-analyses",
      SETTINGS            |-> "seo-toolkit-settings",
      CREDENTIALS         |-> "seo-toolkit-credentials",
      API_ENDPOINTS       |-> "seo-toolkit-api-endpoints" ]

AllKeys == { STORAGE_KEYS[n] : n \in DOMAIN STORAGE_KEYS }

CollectionKeys ==
    { STORAGE_KEYS.PROJECTS, STORAGE_KEYS.RECENT_ANALYSES, STORAGE_KEYS.SAVED_KEYWORDS,
      STORAGE_KEYS.SAVED_CONTENT, STORAGE_KEYS.COMPETITOR_ANALYSES }

\* What localStorage holds under a key: null (no item), or a text, which is
\* the empty string, the JSON text of a value, or a text that is no JSON.
NoItem == [kind |-> "null", value |-> <<>>]
EmptyText == [kind |-> "empty", value |-> <<>>]
GarbageText == [kind |-> "garbage", value |-> <<>>]

\* JSON.stringify(value): the JSON text of the value
JSONstringify(value) == [kind |-> "json", value |-> value]

\* JSON.parse(text): the value of a JSON text; throws a SyntaxError on any other text
JSONparse(text) == [threw |-> text.kind # "json", value |-> text.value]

\* `value ? a : b`: null and the empty string are falsy
Truthy(item) == item.kind \notin {"null", "empty"}

\* How a call's access to localStorage goes:
\*   "none":   reads and writes succeed;
\*   "denied": access to the storage is refused, getItem and setItem throw;
\*   "quota":  reads succeed, setItem throws (QuotaExceededError) and stores nothing.
Faults == {"none", "denied", "quota"}

localStorageGetItem(st, key, fault) ==
    [threw |-> fault = "denied", value |-> st[key]]

localStorageSetItem(st, key, text, fault) ==
    IF fault \in {"denied", "quota"}
    THEN [threw |-> TRUE, storage |-> st]
    ELSE [threw |-> FALSE, storage |-> [st EXCEPT ![key] = text]]

\* getFromStorage without its catch clause: an error of getItem or JSON.parse escapes
getFromStorageNoCatch(st, key, defaultValue, fault) ==
    IF env = "server" THEN [threw |-> FALSE, value |-> defaultValue]
    ELSE LET got == localStorageGetItem(st, key, fault)
         IN IF got.threw THEN [threw |-> TRUE, value |-> defaultValue]
            ELSE IF Truthy(got.value)
                 THEN LET parsed == JSONparse(got.value)
                      IN IF parsed.threw THEN [threw |-> TRUE, value |-> defaultValue]
                                         ELSE parsed
                 ELSE [threw |-> FALSE, value |-> defaultValue]

\* a getFromStorage that fills the properties the stored object lacks from
\* the default ({...defaultValue, ...JSON.parse(value)})
getFromStorageMergingDefaults(st, key, defaultValue, fault) ==
    IF env = "server" \/ fault = "denied" \/ ~Truthy(st[key]) \/ JSONparse(st[key]).threw
    THEN [threw |-> FALSE, value |-> defaultValue]
    ELSE LET stored == JSONparse(st[key]).value
         IN [threw |-> FALSE,
             value |-> [k \in DOMAIN defaultValue \cup DOMAIN stored |->
                           IF k \in DOMAIN stored THEN stored[k] ELSE defaultValue[k]]]

\* getFromStorage<T>(key, defaultValue): [threw, value]
getFromStorage(st, key, defaultValue, fault) ==
    IF env = "server" THEN [threw |-> FALSE, value |-> defaultValue]
    ELSE LET got == localStorageGetItem(st, key, fault)
             tried ==
                 IF got.threw THEN [threw |-> TRUE, value |-> defaultValue]
                 ELSE IF Truthy(got.value)
                      THEN JSONparse(got.value)
                      ELSE [threw |-> FALSE, value |-> defaultValue]
         IN IF tried.threw
            THEN [threw |-> FALSE, value |-> defaultValue]   \* catch: log, return the default
            ELSE tried

\* setInStorage that swallows the error of setItem
setInStorageSwallow(st, key, value, fault) ==
    IF env = "server" THEN [threw |-> FALSE, storage |-> st]
    ELSE [threw |-> FALSE,
          storage |-> localStorageSetItem(st, key, JSONstringify(value), fault).storage]

\* a setInStorage that empties the rest of the storage (localStorage.clear())
setInStorageClearing(st, key, value, fault) ==
    IF env = "server" \/ fault # "none" THEN [threw |-> fault # "none" /\ env # "server", storage |-> st]
    ELSE [threw |-> FALSE,
          storage |-> [k \in DOMAIN st |-> IF k = key THEN JSONstringify(value) ELSE NoItem]]

\* setInStorage(key, value): [threw, storage]
setInStorage(st, key, value, fault) ==
    IF env = "server" THEN [threw |-> FALSE, storage |-> st]
    ELSE LET set == localStorageSetItem(st, key, JSONstringify(value), fault)
         IN IF set.threw
            THEN [threw |-> TRUE, storage |-> set.storage]   \* catch: log, re-throw
            ELSE set

(***************************************************************************)
(* Array operations of JavaScript used by the store.                       *)
(***************************************************************************)
\* findIndex that never finds the id
findIndexNever(arr, id) == -1

\* arr.findIndex(x => x.id === id): the 0-based index of the first match, -1 if none
findIndex(arr, id) ==
    IF \E i \in 1..Len(arr) : arr[i].id = id
    THEN (CHOOSE i \in 1..Len(arr) :
             /\ arr[i].id = id
             /\ \A j \in 1..(i - 1) : arr[j].id # id) - 1
    ELSE -1

\* the filter with its test inverted: arr.filter(x => x.id === id)
filterOnly(arr, id) == SelectSeq(arr, LAMBDA x : x.id = id)

\* arr.filter(x => x.id !== id)
RECURSIVE filterOut(_, _)
filterOut(arr, id) ==
    IF arr = <<>> THEN <<>>
    ELSE IF Head(arr).id # id
         THEN <<Head(arr)>> \o filterOut(Tail(arr), id)
         ELSE filterOut(Tail(arr), id)

\* a replacement that moves the entity to the end of the array
setAtEnd(arr, index, x) ==
    Append(SubSeq(arr, 1, index) \o SubSeq(arr, index + 2, Len(arr)), x)

\* arr[index] = x (index 0-based)
setAt(arr, index, x) == [arr EXCEPT ![index + 1] = x]
\* arr.push(x)
push(arr, x) == Append(arr, x)
\* an insertion at the end instead of the front
unshiftAtEnd(arr, x) == Append(arr, x)

\* arr.unshift(x)
unshift(arr, x) == <<x>> \o arr
\* arr.pop(): the array without its last element
pop(arr) == SubSeq(arr, 1, Len(arr) - 1)

(***************************************************************************)
(* The five collections. An entity is a record with an id, a payload (the  *)
(* domain fields, which the store never reads) and the timestamp fields of *)
(* its interface. Every save and delete returns [threw, storage].          *)
(***************************************************************************)
\* the cap of the recent-analyses collection
MaxRecentAnalyses == 10

getProjects(st, fault) == getFromStorage(st, STORAGE_KEYS.PROJECTS, <<>>, fault)

\* saveProject that stores the project as passed, without reading the clock
saveProjectNoStamp(st, project, t1, t2, fault) ==
    LET got == getProjects(st, fault)
        projects == got.value
        index == findIndex(projects, project.id)
        written ==
            IF index >= 0 THEN setAt(projects, index, project) ELSE push(projects, project)
    IN IF got.threw THEN [threw |-> TRUE, storage |-> st]
       ELSE setInStorage(st, STORAGE_KEYS.PROJECTS, written, fault)

saveProject(st, project, t1, t2, fault) ==
    LET got == getProjects(st, fault)
        projects == got.value
        index == findIndex(projects, project.id)
        written ==
            IF index >= 0
            THEN setAt(projects, index, [project EXCEPT !.dateUpdated = t1])
            ELSE push(projects, [project EXCEPT !.dateCreated = t1, !.dateUpdated = t2])
    IN IF got.threw THEN [threw |-> TRUE, storage |-> st]
       ELSE setInStorage(st, STORAGE_KEYS.PROJECTS, written, fault)

deleteProject(st, projectId, fault) ==
    LET got == getProjects(st, fault)
    IN IF got.threw THEN [threw |-> TRUE, storage |-> st]
       ELSE setInStorage(st, STORAGE_KEYS.PROJECTS, filterOut(got.value, projectId), fault)

getRecentAnalyses(st, fault) == getFromStorage(st, STORAGE_KEYS.RECENT_ANALYSES, <<>>, fault)

\* saveAnalysisResult without the truncation to the 10 most recent
saveAnalysisResultNoCap(st, analysis, fault) ==
    LET got == getRecentAnalyses(st, fault)
        analyses == got.value
        index == findIndex(analyses, analysis.id)
        written ==
            IF index >= 0 THEN setAt(analyses, index, analysis) ELSE unshift(analyses, analysis)
    IN IF got.threw THEN [threw |-> TRUE, storage |-> st]
       ELSE setInStorage(st, STORAGE_KEYS.RECENT_ANALYSES, written, fault)

saveAnalysisResult(st, analysis, fault) ==
    LET got == getRecentAnalyses(st, fault)
        analyses == got.value
        index == findIndex(analyses, analysis.id)
        unshifted == unshift(analyses, analysis)
        written ==
            IF index >= 0
            THEN setAt(analyses, index, analysis)
            ELSE IF Len(unshifted) > MaxRecentAnalyses THEN pop(unshifted) ELSE unshifted
    IN IF got.threw THEN [threw |-> TRUE, storage |-> st]
       ELSE setInStorage(st, STORAGE_KEYS.RECENT_ANALYSES, written, fault)

deleteAnalysisResult(st, analysisId, fault) ==
    LET got == getRecentAnalyses(st, fault)
    IN IF got.threw THEN [threw |-> TRUE, storage |-> st]
       ELSE setInStorage(st, STORAGE_KEYS.RECENT_ANALYSES, filterOut(got.value, analysisId), fault)

getSavedKeywords(st, fault) == getFromStorage(st, STORAGE_KEYS.SAVED_KEYWORDS, <<>>, fault)

saveKeyword(st, keyword, t1, fault) ==
    LET got == getSavedKeywords(st, fault)
        keywords == got.value
        index == findIndex(keywords, keyword.id)
        written ==
            IF index >= 0
            THEN setAt(keywords, index, keyword)
            ELSE push(keywords, [keyword EXCEPT !.dateAdded = t1])
    IN IF got.threw THEN [threw |-> TRUE, storage |-> st]
       ELSE setInStorage(st, STORAGE_KEYS.SAVED_KEYWORDS, written, fault)

deleteKeyword(st, keywordId, fault) ==
    LET got == getSavedKeywords(st, fault)
    IN IF got.threw THEN [threw |-> TRUE, storage |-> st]
       ELSE setInStorage(st, STORAGE_KEYS.SAVED_KEYWORDS, filterOut(got.value, keywordId), fault)

getSavedContent(st, fault) == getFromStorage(st, STORAGE_KEYS.SAVED_CONTENT, <<>>, fault)

saveContent(st, content, t1, t2, fault) ==
    LET got == getSavedContent(st, fault)
        contents == got.value
        index == findIndex(contents, content.id)
        written ==
            IF index >= 0
            THEN setAt(contents, index, [content EXCEPT !.dateUpdated = t1])
            ELSE push(contents, [content EXCEPT !.dateCreated = t1, !.dateUpdated = t2])
    IN IF got.threw THEN [threw |-> TRUE, storage |-> st]
       ELSE setInStorage(st, STORAGE_KEYS.SAVED_CONTENT, written, fault)

deleteContent(st, contentId, fault) ==
    LET got == getSavedContent(st, fault)
    IN IF got.threw THEN [threw |-> TRUE, storage |-> st]
       ELSE setInStorage(st, STORAGE_KEYS.SAVED_CONTENT, filterOut(got.value, contentId), fault)

getCompetitorAnalyses(st, fault) ==
    getFromStorage(st, STORAGE_KEYS.COMPETITOR_ANALYSES, <<>>, fault)

saveCompetitorAnalysis(st, analysis, t1, fault) ==
    LET got == getCompetitorAnalyses(st, fault)
        analyses == got.value
        index == findIndex(analyses, analysis.id)
        written ==
            IF index >= 0
            THEN setAt(analyses, index, analysis)
            ELSE push(analyses, [analysis EXCEPT !.dateCreated = t1])
    IN IF got.threw THEN [threw |-> TRUE, storage |-> st]
       ELSE setInStorage(st, STORAGE_KEYS.COMPETITOR_ANALYSES, written, fault)

deleteCompetitorAnalysis(st, analysisId, fault) ==
    LET got == getCompetitorAnalyses(st, fault)
    IN IF got.threw THEN [threw |-> TRUE, storage |-> st]
       ELSE setInStorage(st, STORAGE_KEYS.COMPETITOR_ANALYSES, filterOut(got.value, analysisId), fault)


(***************************************************************************)
(* The three configuration objects and their defaults.                     *)
(***************************************************************************)
DefaultCredentials ==
    [ dataForSeo |-> [username |-> "", password |-> ""],
      openai |-> [apiKey |-> "", model |-> "gpt-4", baseUrl |-> "https://api.openai.com/v1"] ]

DefaultApiEndpoints ==
    [ dataForSeo |->
        [ baseUrl |-> "https://api.dataforseo.com/v3",
          serpEndpoint |-> "/serp",
          onPageEndpoint |-> "/on_page",
          contentAnalysisEndpoint |-> "/content_analysis",
          keywordDataEndpoint |-> "/keywords_data" ] ]

DefaultUserSettings ==
    [language |-> "en", country |-> "US", defaultKeywordLocation |-> "2840", theme |-> "light"]

saveCredentials(st, credentials, fault) ==
    setInStorage(st, STORAGE_KEYS.CREDENTIALS, credentials, fault)

\* a saveApiEndpoints that swallows the error of the write
saveApiEndpointsQuiet(st, endpoints, fault) ==
    [threw |-> FALSE, storage |-> setInStorage(st, STORAGE_KEYS.API_ENDPOINTS, endpoints, fault).storage]

saveApiEndpoints(st, endpoints, fault) ==
    setInStorage(st, STORAGE_KEYS.API_ENDPOINTS, endpoints, fault)

saveUserSettings(st, settings, fault) ==
    setInStorage(st, STORAGE_KEYS.SETTINGS, settings, fault)

getCredentials(st, fault) ==
    getFromStorage(st, STORAGE_KEYS.CREDENTIALS, DefaultCredentials, fault)

getApiEndpoints(st, fault) ==
    getFromStorage(st, STORAGE_KEYS.API_ENDPOINTS, DefaultApiEndpoints, fault)

getUserSettings(st, fault) ==
    getFromStorage(st, STORAGE_KEYS.SETTINGS, DefaultUserSettings, fault)

(***************************************************************************)
(* The callers of the store: one action per exported operation. A call     *)
(* reads the clock (new Date()) where the source does, t1 first and t2     *)
(* second, and meets a fault of the storage or none. lastCall records the  *)
(* call: its arguments, whether the id was in the collection, the length   *)
(* of the collection before the call, and whether the call threw.          *)
(***************************************************************************)
\* the collection under a key as its getX returns it
collection(st, key) == getFromStorage(st, key, <<>>, "none").value

idsOf(arr) == { arr[i].id : i \in 1..Len(arr) }

NoCall ==
    [op |-> "none", key |-> "", id |-> 0, entity |-> [id |-> 0], t1 |-> "", t2 |-> "",
     fault |-> "none", existed |-> FALSE, lenBefore |-> 0, threw |-> FALSE, result |-> <<>>]

\* no text returned
NoText == [label |-> "", color |-> ""]

\* no page component is mounted
NoPage == [page |-> "none"]

NoScoreCall ==
    [fn |-> "none", args |-> <<>>, threw |-> FALSE,
     result |-> [nan |-> FALSE, value |-> 0], text |-> NoText]

Called(op, key, entity, t1, t2, fault, r) ==
    /\ storage' = r.storage
    /\ lastCall' =
          [op |-> op, key |-> key, id |-> entity.id, entity |-> entity, t1 |-> t1, t2 |-> t2,
           fault |-> fault,
           existed |-> entity.id \in idsOf(collection(storage, key)),
           lenBefore |-> Len(collection(storage, key)),
           threw |-> r.threw, result |-> <<>>]
    /\ UNCHANGED <<env, scoreCall, ui>>

CallSaveProject(project, t1, t2, fault) ==
    Called("saveProject", STORAGE_KEYS.PROJECTS, project, t1, t2, fault,
           saveProject(storage, project, t1, t2, fault))

CallDeleteProject(projectId, fault) ==
    Called("deleteProject", STORAGE_KEYS.PROJECTS, [id |-> projectId], "", "", fault,
           deleteProject(storage, projectId, fault))

CallSaveAnalysisResult(analysis, fault) ==
    Called("saveAnalysisResult", STORAGE_KEYS.RECENT_ANALYSES, analysis, "", "", fault,
           saveAnalysisResult(storage, analysis, fault))

CallDeleteAnalysisResult(analysisId, fault) ==
    Called("deleteAnalysisResult", STORAGE_KEYS.RECENT_ANALYSES, [id |-> analysisId], "", "", fault,
           deleteAnalysisResult(storage, analysisId, fault))

CallSaveKeyword(keyword, t1, fault) ==
    Called("saveKeyword", STORAGE_KEYS.SAVED_KEYWORDS, keyword, t1, t1, fault,
           saveKeyword(storage, keyword, t1, fault))

CallDeleteKeyword(keywordId, fault) ==
    Called("deleteKeyword", STORAGE_KEYS.SAVED_KEYWORDS, [id |-> keywordId], "", "", fault,
           deleteKeyword(storage, keywordId, fault))

CallSaveContent(content, t1, t2, fault) ==
    Called("saveContent", STORAGE_KEYS.SAVED_CONTENT, content, t1, t2, fault,
           saveContent(storage, content, t1, t2, fault))

CallDeleteContent(contentId, fault) ==
    Called("deleteContent", STORAGE_KEYS.SAVED_CONTENT, [id |-> contentId], "", "", fault,
           deleteContent(storage, contentId, fault))

CallSaveCompetitorAnalysis(analysis, t1, fault) ==
    Called("saveCompetitorAnalysis", STORAGE_KEYS.COMPETITOR_ANALYSES, analysis, t1, t1, fault,
           saveCompetitorAnalysis(storage, analysis, t1, fault))

CallDeleteCompetitorAnalysis(analysisId, fault) ==
    Called("deleteCompetitorAnalysis", STORAGE_KEYS.COMPETITOR_ANALYSES, [id |-> analysisId],
           "", "", fault, deleteCompetitorAnalysis(storage, analysisId, fault))

(***************************************************************************)
(* The entities callers pass. Timestamp fields arrive with the caller's    *)
(* value, which no clock reading equals.                                   *)
(***************************************************************************)
ProjectInputs(ids) ==
    [id : ids, payload : Payloads, dateCreated : {CallerStamp}, dateUpdated : {CallerStamp}]
AnalysisInputs(ids, payloads) ==
    [id : ids, payload : payloads, dateAnalyzed : {CallerStamp}]
KeywordInputs(ids) ==
    [id : ids, payload : Payloads, dateAdded : {CallerStamp}]
ContentInputs(ids) ==
    [id : ids, payload : Payloads, dateCreated : {CallerStamp}, dateUpdated : {CallerStamp}]
CompetitorInputs(ids) ==
    [id : ids, payload : Payloads, dateCreated : {CallerStamp}]

\* a run of the store specification works on one collection: a call is made
\* on a collection only while nothing was ever written under the other keys
inUse(key) == \A k \in AllKeys \ {key} : storage[k] = NoItem

\* the call returns to its caller (the event loop), which makes the next call
Return ==
    /\ lastCall # NoCall
    /\ lastCall' = NoCall
    /\ UNCHANGED <<env, storage, scoreCall, ui>>

Init ==
    /\ env \in {"browser", "server"}
    /\ storage = [k \in AllKeys |-> NoItem]
    /\ lastCall = NoCall
    /\ scoreCall = NoScoreCall
    /\ ui = NoPage

(***************************************************************************)
(* Spec: saves and deletes on the five collections, from empty storage.    *)
(***************************************************************************)
SaveProjectCalls ==
    /\ lastCall = NoCall
    /\ inUse(STORAGE_KEYS.PROJECTS)
    /\ \E p \in ProjectInputs(Ids), t \in ClockPairs, f \in Faults :
          CallSaveProject(p, t[1], t[2], f)

DeleteProjectCalls ==
    /\ lastCall = NoCall
    /\ inUse(STORAGE_KEYS.PROJECTS)
    /\ \E id \in Ids, f \in Faults : CallDeleteProject(id, f)

SaveAnalysisResultCalls ==
    /\ lastCall = NoCall
    /\ inUse(STORAGE_KEYS.RECENT_ANALYSES)
    /\ \E a \in AnalysisInputs(Ids, Scores), f \in Faults :
          CallSaveAnalysisResult(a, f)

DeleteAnalysisResultCalls ==
    /\ lastCall = NoCall
    /\ inUse(STORAGE_KEYS.RECENT_ANALYSES)
    /\ \E id \in Ids, f \in Faults : CallDeleteAnalysisResult(id, f)

SaveKeywordCalls ==
    /\ lastCall = NoCall
    /\ inUse(STORAGE_KEYS.SAVED_KEYWORDS)
    /\ \E k \in KeywordInputs(Ids), t1 \in Times, f \in Faults :
          CallSaveKeyword(k, t1, f)

DeleteKeywordCalls ==
    /\ lastCall = NoCall
    /\ inUse(STORAGE_KEYS.SAVED_KEYWORDS)
    /\ \E id \in Ids, f \in Faults : CallDeleteKeyword(id, f)

SaveContentCalls ==
    /\ lastCall = NoCall
    /\ inUse(STORAGE_KEYS.SAVED_CONTENT)
    /\ \E c \in ContentInputs(Ids), t \in ClockPairs, f \in Faults :
          CallSaveContent(c, t[1], t[2], f)

DeleteContentCalls ==
    /\ lastCall = NoCall
    /\ inUse(STORAGE_KEYS.SAVED_CONTENT)
    /\ \E id \in Ids, f \in Faults : CallDeleteContent(id, f)

SaveCompetitorAnalysisCalls ==
    /\ lastCall = NoCall
    /\ inUse(STORAGE_KEYS.COMPETITOR_ANALYSES)
    /\ \E a \in CompetitorInputs(Ids), t1 \in Times, f \in Faults :
          CallSaveCompetitorAnalysis(a, t1, f)

DeleteCompetitorAnalysisCalls ==
    /\ lastCall = NoCall
    /\ inUse(STORAGE_KEYS.COMPETITOR_ANALYSES)
    /\ \E id \in Ids, f \in Faults : CallDeleteCompetitorAnalysis(id, f)

Next ==
    \/ SaveProjectCalls
    \/ DeleteProjectCalls
    \/ SaveAnalysisResultCalls
    \/ DeleteAnalysisResultCalls
    \/ SaveKeywordCalls
    \/ DeleteKeywordCalls
    \/ SaveContentCalls
    \/ DeleteContentCalls
    \/ SaveCompetitorAnalysisCalls
    \/ DeleteCompetitorAnalysisCalls
    \/ Return

Spec == Init /\ [][Next]_vars


(***************************************************************************)
(* SpecCap: saves and deletes on the recent-analyses collection alone,     *)
(* with enough ids to fill it. A new id is larger than every id in the     *)
(* collection (ids are minted in increasing order, a deleted id may come   *)
(* back once the larger ones are gone), so among the entries a larger id   *)
(* is a later insertion.                                                   *)
(***************************************************************************)
AnalysisIds == 1..MaxAnalysisId

newerThanAll(id, arr) == \A x \in idsOf(arr) : x < id

SaveAnalysisResultCapCalls ==
    /\ lastCall = NoCall
    /\ \E a \in AnalysisInputs(AnalysisIds, {0}), f \in Faults :
          /\ LET analyses == collection(storage, STORAGE_KEYS.RECENT_ANALYSES)
             IN a.id \in idsOf(analyses) \/ newerThanAll(a.id, analyses)
          /\ CallSaveAnalysisResult(a, f)

DeleteAnalysisResultCapCalls ==
    /\ lastCall = NoCall
    /\ \E id \in AnalysisIds, f \in Faults : CallDeleteAnalysisResult(id, f)

NextCap ==
    \/ SaveAnalysisResultCapCalls
    \/ DeleteAnalysisResultCapCalls
    \/ Return

SpecCap == Init /\ [][NextCap]_vars


(***************************************************************************)
(* Properties of the store.                                                *)
(***************************************************************************)
SaveOps ==
    {"saveProject", "saveAnalysisResult", "saveKeyword", "saveContent", "saveCompetitorAnalysis"}
DeleteOps ==
    {"deleteProject", "deleteAnalysisResult", "deleteKeyword", "deleteContent",
     "deleteCompetitorAnalysis"}

\* the last call ran in the browser and returned normally
completed(call) == env = "browser" /\ ~call.threw

idSeq(arr) == [i \in 1..Len(arr) |-> arr[i].id]

\* the entity with the given id in a collection without duplicates
entityOf(arr, id) == arr[CHOOSE i \in 1..Len(arr) : arr[i].id = id]

\* C1: from empty storage, after any sequence of saveAnalysisResult and
\* deleteAnalysisResult calls the recent-analyses collection holds at most
\* 10 entries.
C1_AtMostTenAnalyses ==
    Len(collection(storage, STORAGE_KEYS.RECENT_ANALYSES)) <= 10

\* a new analysis was saved into a collection that already held 10
C1_Witness ==
    /\ lastCall.op = "saveAnalysisResult"
    /\ completed(lastCall)
    /\ ~lastCall.existed
    /\ lastCall.lenBefore = 10
    /\ Len(collection(storage, STORAGE_KEYS.RECENT_ANALYSES)) = 10

\* C2: saveAnalysisResult with an id not in the collection places the entry
\* at index 0 and keeps the others in their order; when the collection held
\* 10 entries the entry removed is the last one, which is the least recently
\* inserted (in SpecCap: the one with the smallest id), and the collection
\* stays most-recent-first (ids strictly decreasing).
C2_NewAtFrontOldestEvicted ==
    [][ ( /\ lastCall'.op = "saveAnalysisResult"
          /\ env = "browser"
          /\ ~lastCall'.threw
          /\ ~lastCall'.existed )
        => LET old == collection(storage, STORAGE_KEYS.RECENT_ANALYSES)
               new == collection(storage', STORAGE_KEYS.RECENT_ANALYSES)
               kept == IF Len(old) = 10 THEN SubSeq(old, 1, 9) ELSE old
           IN /\ new = <<lastCall'.entity>> \o kept
              /\ Len(old) = 10 => \A i \in 1..9 : old[i].id > old[10].id
              /\ \A i \in 1..(Len(new) - 1) : new[i].id > new[i + 1].id
      ]_vars

\* the 11th of 11 inserts with distinct ids: the collection holds ids 11..2
C2_Witness ==
    /\ lastCall.op = "saveAnalysisResult"
    /\ completed(lastCall)
    /\ ~lastCall.existed
    /\ lastCall.lenBefore = 10
    /\ idSeq(collection(storage, STORAGE_KEYS.RECENT_ANALYSES)) = <<11, 10, 9, 8, 7, 6, 5, 4, 3, 2>>

\* C3: from empty storage, after any sequence of saves and deletes no
\* collection holds two entities with the same id, and a save whose id is
\* already present leaves the length of its collection unchanged.
C3_NoDuplicateIds ==
    /\ \A k \in CollectionKeys :
          LET arr == collection(storage, k)
          IN \A i, j \in 1..Len(arr) : arr[i].id = arr[j].id => i = j
    /\ (lastCall.op \in SaveOps /\ lastCall.existed)
          => Len(collection(storage, lastCall.key)) = lastCall.lenBefore

\* a keyword was saved again under an id the collection of 2 already held
C3_Witness ==
    /\ lastCall.op = "saveKeyword"
    /\ completed(lastCall)
    /\ lastCall.existed
    /\ lastCall.lenBefore = 2
    /\ Len(collection(storage, STORAGE_KEYS.SAVED_KEYWORDS)) = 2

\* C4: saveProject, saveKeyword, saveContent and saveCompetitorAnalysis
\* replace an entity with the same id at its index, and append a new id at
\* the end; every other entity keeps its index and value.
C4_ReplaceInPlaceOrAppend ==
    [][ ( /\ lastCall'.op \in SaveOps \ {"saveAnalysisResult"}
          /\ env = "browser"
          /\ ~lastCall'.threw )
        => LET old == collection(storage, lastCall'.key)
               new == collection(storage', lastCall'.key)
           IN IF lastCall'.id \in idsOf(old)
              THEN /\ Len(new) = Len(old)
                   /\ \A i \in 1..Len(old) :
                         IF old[i].id = lastCall'.id
                         THEN /\ new[i].id = lastCall'.id
                              /\ new[i].payload = lastCall'.entity.payload
                         ELSE new[i] = old[i]
              ELSE /\ Len(new) = Len(old) + 1
                   /\ \A i \in 1..Len(old) : new[i] = old[i]
                   /\ new[Len(new)].id = lastCall'.id
                   /\ new[Len(new)].payload = lastCall'.entity.payload
      ]_vars

\* a project in the middle of a collection of 3 was saved again
C4_Witness ==
    /\ lastCall.op = "saveProject"
    /\ completed(lastCall)
    /\ lastCall.existed
    /\ Len(collection(storage, STORAGE_KEYS.PROJECTS)) = 3
    /\ collection(storage, STORAGE_KEYS.PROJECTS)[2].id = lastCall.id
    /\ collection(storage, STORAGE_KEYS.PROJECTS)[2].dateUpdated = lastCall.t1


\* the update timestamp of a stored entity, "none" where its interface has none
updatedStampOf(op, e) ==
    IF op \in {"saveProject", "saveContent"} THEN e.dateUpdated ELSE "none"

\* the creation timestamp of a stored entity
createdStampOf(op, e) ==
    CASE op \in {"saveProject", "saveContent", "saveCompetitorAnalysis"} -> e.dateCreated
      [] op = "saveKeyword" -> e.dateAdded
      [] op = "saveAnalysisResult" -> e.dateAnalyzed

\* the value is a reading of the clock made during the call
readDuring(call, v) == v \in Times /\ v \in {call.t1, call.t2}

\* C5 as stated: every save stamps the stored entity with the time of the
\* call: an updated timestamp when the id existed, a created timestamp when
\* it is new.
C5_EverySaveStamps ==
    (lastCall.op \in SaveOps /\ completed(lastCall))
    => LET e == entityOf(collection(storage, lastCall.key), lastCall.id)
       IN IF lastCall.existed
          THEN readDuring(lastCall, updatedStampOf(lastCall.op, e))
          ELSE readDuring(lastCall, createdStampOf(lastCall.op, e))

\* C5 amended: saveProject and saveContent set dateUpdated to the time of
\* the call when the id exists (dateCreated is stored as passed) and set
\* dateCreated and dateUpdated to the time of the call when the id is new;
\* saveKeyword (dateAdded) and saveCompetitorAnalysis (dateCreated) stamp
\* only a new id and store the entity as passed when the id exists;
\* saveAnalysisResult stores the entity as passed in both cases.
C5_StampsPerOperation ==
    (lastCall.op \in SaveOps /\ completed(lastCall))
    => LET e == entityOf(collection(storage, lastCall.key), lastCall.id)
           passed == lastCall.entity
       IN /\ e.id = passed.id
          /\ e.payload = passed.payload
          /\ lastCall.op \in {"saveProject", "saveContent"} =>
                IF lastCall.existed
                THEN e.dateCreated = passed.dateCreated /\ e.dateUpdated = lastCall.t1
                ELSE e.dateCreated = lastCall.t1 /\ e.dateUpdated = lastCall.t2
          /\ lastCall.op = "saveKeyword" =>
                e.dateAdded = (IF lastCall.existed THEN passed.dateAdded ELSE lastCall.t1)
          /\ lastCall.op = "saveCompetitorAnalysis" =>
                e.dateCreated = (IF lastCall.existed THEN passed.dateCreated ELSE lastCall.t1)
          /\ lastCall.op = "saveAnalysisResult" => e.dateAnalyzed = passed.dateAnalyzed

\* a keyword saved under an existing id is stored with the caller's
\* dateAdded: no timestamp of the call is set
C5_Witness ==
    /\ lastCall.op = "saveKeyword"
    /\ completed(lastCall)
    /\ lastCall.existed
    /\ lastCall.t1 \in Times
    /\ entityOf(collection(storage, STORAGE_KEYS.SAVED_KEYWORDS), lastCall.id).dateAdded
          = CallerStamp

\* C6: a delete that returns leaves no entity with the id and keeps every
\* other entity, in the previous order; when no entity has the id the
\* collection is unchanged and the call raises no error (an error comes
\* only from a failing storage write, whether the id is there or not).
C6_DeleteRemovesOnlyThatId ==
    [][ (lastCall'.op \in DeleteOps /\ env = "browser")
        => LET old == collection(storage, lastCall'.key)
               new == collection(storage', lastCall'.key)
           IN /\ ~lastCall'.threw =>
                    /\ lastCall'.id \notin idsOf(new)
                    /\ new = SelectSeq(old, LAMBDA e : e.id # lastCall'.id)
              /\ lastCall'.id \notin idsOf(old) =>
                    /\ new = old
                    /\ lastCall'.threw => lastCall'.fault # "none"
              /\ lastCall'.fault = "none" => ~lastCall'.threw
      ]_vars

\* a project was deleted from a collection of 3, leaving the other 2
C6_Witness ==
    /\ lastCall.op = "deleteProject"
    /\ completed(lastCall)
    /\ lastCall.existed
    /\ lastCall.lenBefore = 3
    /\ Len(collection(storage, STORAGE_KEYS.PROJECTS)) = 2
    /\ lastCall.id \notin idsOf(collection(storage, STORAGE_KEYS.PROJECTS))

\* C8: when the storage write fails during a save or a delete, the error is
\* raised to the caller and the stored value of every key is what it was.
C8_WriteFailurePropagates ==
    [][ (lastCall'.op \in SaveOps \cup DeleteOps /\ env = "browser")
        => /\ lastCall'.fault \in {"quota", "denied"} => lastCall'.threw
           /\ lastCall'.threw => \A k \in AllKeys : storage'[k] = storage[k]
      ]_vars

\* a save of an existing content entity met a full storage and threw
C8_Witness ==
    /\ lastCall.op = "saveContent"
    /\ env = "browser"
    /\ lastCall.fault = "quota"
    /\ lastCall.threw
    /\ lastCall.existed
    /\ lastCall.lenBefore = 2


(***************************************************************************)
(* SpecRead: the eight getX operations, read from a storage in which one   *)
(* key holds any kind of text: none, the empty string, a text that is no   *)
(* JSON (written by another script or by hand), or the JSON text of a      *)
(* value of the key's type.                                                *)
(***************************************************************************)
\* a stored value of the key's type other than its default
sampleValue(key) ==
    CASE key = STORAGE_KEYS.PROJECTS ->
            << [id |-> 1, payload |-> "p", dateCreated |-> "T1", dateUpdated |-> "T2"] >>
      [] key = STORAGE_KEYS.RECENT_ANALYSES ->
            << [id |-> 1, payload |-> 100, dateAnalyzed |-> CallerStamp] >>
      [] key = STORAGE_KEYS.SAVED_KEYWORDS ->
            << [id |-> 1, payload |-> "p", dateAdded |-> "T1"] >>
      [] key = STORAGE_KEYS.SAVED_CONTENT ->
            << [id |-> 1, payload |-> "p", dateCreated |-> "T1", dateUpdated |-> "T2"] >>
      [] key = STORAGE_KEYS.COMPETITOR_ANALYSES ->
            << [id |-> 1, payload |-> "p", dateCreated |-> "T1"] >>
      [] key = STORAGE_KEYS.SETTINGS -> [DefaultUserSettings EXCEPT !.theme = "dark"]
      [] key = STORAGE_KEYS.CREDENTIALS ->
            [DefaultCredentials EXCEPT !.openai.apiKey = "sk-key"]
      [] key = STORAGE_KEYS.API_ENDPOINTS ->
            [DefaultApiEndpoints EXCEPT !.dataForSeo.serpEndpoint = "/serp/v2"]

StoredTexts(key) == {NoItem, EmptyText, GarbageText, JSONstringify(sampleValue(key))}

InitRead ==
    /\ env \in {"browser", "server"}
    /\ \E key \in AllKeys :
          \E text \in StoredTexts(key) :
              storage = [k \in AllKeys |-> IF k = key THEN text ELSE NoItem]
    /\ lastCall = NoCall
    /\ scoreCall = NoScoreCall
    /\ ui = NoPage

Got(op, key, fault, r) ==
    /\ lastCall = NoCall
    /\ lastCall' =
          [op |-> op, key |-> key, id |-> 0, entity |-> [id |-> 0], t1 |-> "", t2 |-> "",
           fault |-> fault, existed |-> FALSE, lenBefore |-> 0,
           threw |-> r.threw, result |-> r.value]
    /\ UNCHANGED <<env, storage, scoreCall, ui>>

CallGetProjects ==
    \E f \in Faults : Got("getProjects", STORAGE_KEYS.PROJECTS, f, getProjects(storage, f))
CallGetRecentAnalyses ==
    \E f \in Faults :
        Got("getRecentAnalyses", STORAGE_KEYS.RECENT_ANALYSES, f, getRecentAnalyses(storage, f))
CallGetSavedKeywords ==
    \E f \in Faults :
        Got("getSavedKeywords", STORAGE_KEYS.SAVED_KEYWORDS, f, getSavedKeywords(storage, f))
CallGetSavedContent ==
    \E f \in Faults :
        Got("getSavedContent", STORAGE_KEYS.SAVED_CONTENT, f, getSavedContent(storage, f))
CallGetCompetitorAnalyses ==
    \E f \in Faults :
        Got("getCompetitorAnalyses", STORAGE_KEYS.COMPETITOR_ANALYSES, f,
            getCompetitorAnalyses(storage, f))
CallGetCredentials ==
    \E f \in Faults :
        Got("getCredentials", STORAGE_KEYS.CREDENTIALS, f, getCredentials(storage, f))
CallGetApiEndpoints ==
    \E f \in Faults :
        Got("getApiEndpoints", STORAGE_KEYS.API_ENDPOINTS, f, getApiEndpoints(storage, f))
CallGetUserSettings ==
    \E f \in Faults :
        Got("getUserSettings", STORAGE_KEYS.SETTINGS, f, getUserSettings(storage, f))

NextRead ==
    \/ CallGetProjects
    \/ CallGetRecentAnalyses
    \/ CallGetSavedKeywords
    \/ CallGetSavedContent
    \/ CallGetCompetitorAnalyses
    \/ CallGetCredentials
    \/ CallGetApiEndpoints
    \/ CallGetUserSettings
    \/ Return

SpecRead == InitRead /\ [][NextRead]_vars

GetOps ==
    {"getProjects", "getRecentAnalyses", "getSavedKeywords", "getSavedContent",
     "getCompetitorAnalyses", "getCredentials", "getApiEndpoints", "getUserSettings"}

\* the default the specification documents for a key: the empty array for
\* a collection, the default object for credentials, endpoints and settings
documentedDefault(key) ==
    CASE key \in CollectionKeys -> <<>>
      [] key = STORAGE_KEYS.CREDENTIALS -> DefaultCredentials
      [] key = STORAGE_KEYS.API_ENDPOINTS -> DefaultApiEndpoints
      [] key = STORAGE_KEYS.SETTINGS -> DefaultUserSettings

\* C7: a getX never raises an error, and returns the documented default
\* whenever the key is missing, the storage is unavailable (no window, or
\* getItem throws) or the stored text is not valid JSON.
C7_ReadNeverThrows ==
    lastCall.op \in GetOps
    => /\ ~lastCall.threw
       /\ ( \/ env = "server"
            \/ lastCall.fault = "denied"
            \/ storage[lastCall.key].kind \in {"null", "empty", "garbage"} )
          => lastCall.result = documentedDefault(lastCall.key)

\* the settings were read in the browser from a text that is no JSON
C7_Witness ==
    /\ lastCall.op = "getUserSettings"
    /\ env = "browser"
    /\ lastCall.fault = "none"
    /\ storage[STORAGE_KEYS.SETTINGS] = GarbageText
    /\ ~lastCall.threw
    /\ lastCall.result = DefaultUserSettings


(***************************************************************************)
(* The scoring engine (app/utils/seo-helpers.ts).                          *)
(* A string is a sequence of characters; Null stands for null and          *)
(* undefined. Numbers that the source computes in floating point are       *)
(* computed exactly: weights in hundredths, densities as ratios.           *)
(***************************************************************************)
Null == <<"null">>

\* !value for a string, null or undefined
isFalsy(str) == str = Null \/ str = <<>>

UpperCase == <<"A", "B", "C", "D", "E", "F", "G", "H", "I", "J", "K", "L", "M",
               "N", "O", "P", "Q", "R", "S", "T", "U", "V", "W", "X", "Y", "Z">>
LowerCase == <<"a", "b", "c", "d", "e", "f", "g", "h", "i", "j", "k", "l", "m",
               "n", "o", "p", "q", "r", "s", "t", "u", "v", "w", "x", "y", "z">>

lowerChar(c) ==
    IF \E i \in 1..Len(UpperCase) : UpperCase[i] = c
    THEN LowerCase[CHOOSE i \in 1..Len(UpperCase) : UpperCase[i] = c]
    ELSE c

\* a toLowerCase that leaves the case as it is
toLowerCaseKeepCase(str) == str

\* str.toLowerCase()
toLowerCase(str) == [i \in 1..Len(str) |-> lowerChar(str[i])]

\* whether sub occurs in str at the 0-based index i
matchesAt(str, sub, i) ==
    /\ i >= 0
    /\ i + Len(sub) <= Len(str)
    /\ SubSeq(str, i + 1, i + Len(sub)) = sub

\* str.includes(sub)
includes(str, sub) == \E i \in 0..(Len(str) - Len(sub)) : matchesAt(str, sub, i)

\* \s of a regular expression
isSpace(c) == c \in {" ", "\n", "\t"}

\* [.!?] of the sentence split
isTerminator(c) == c \in {".", "!", "?"}

\* the 1-based positions in from..to where a word starts: a character that
\* is no white space, at `from` or after a white space
wordStarts(str, from, to) ==
    { k \in from..to : ~isSpace(str[k]) /\ (k = from \/ isSpace(str[k - 1])) }

\* str.split(/\s+/).filter(Boolean).length
wordCount(str) == Cardinality(wordStarts(str, 1, Len(str)))

\* the 1-based end of the match of /\n\s*\n/ that starts at i, 0 if none:
\* \s* is greedy, so the match runs to the last line break that only white
\* space separates from the one at i
paragraphBreakEnd(str, i) ==
    IF str[i] # "\n" THEN 0
    ELSE LET ends == { j \in (i + 1)..Len(str) :
                          /\ str[j] = "\n"
                          /\ \A k \in (i + 1)..(j - 1) : isSpace(str[k]) }
         IN IF ends = {} THEN 0 ELSE CHOOSE j \in ends : \A x \in ends : x <= j

\* the number of matches of /\n\s*\n/ in str from the 1-based position pos on,
\* found left to right without overlap
RECURSIVE paragraphBreaks(_, _)
paragraphBreaks(str, pos) ==
    LET starts == { i \in pos..Len(str) : paragraphBreakEnd(str, i) > 0 }
    IN IF starts = {} THEN 0
       ELSE LET i == CHOOSE x \in starts : \A y \in starts : x <= y
            IN 1 + paragraphBreaks(str, paragraphBreakEnd(str, i) + 1)

\* content.split(/\n\s*\n/).length
paragraphCount(str) == 1 + paragraphBreaks(str, 1)

\* the 1-based positions where a piece of str.split(/[.!?]+/).filter(Boolean)
\* starts: the pieces are the maximal runs of characters other than . ! ?
sentenceStarts(str) ==
    { i \in 1..Len(str) : ~isTerminator(str[i]) /\ (i = 1 \/ isTerminator(str[i - 1])) }

\* the last position of the sentence that starts at i
sentenceEnd(str, i) ==
    LET stops == { j \in i..Len(str) : j = Len(str) \/ isTerminator(str[j + 1]) }
    IN CHOOSE j \in stops : \A x \in stops : j <= x

\* sentences.map(s => s.trim().split(/\s+/).filter(Boolean).length), as a set
sentenceLengths(str) ==
    { Cardinality(wordStarts(str, i, sentenceEnd(str, i))) : i \in sentenceStarts(str) }

\* Math.round(n / d) for n >= 0, d > 0: halves round up
roundDiv(n, d) == (2 * n + d) \div (2 * d)

RECURSIVE sumOver(_, _)
\* the sum of f[x] over the set
sumOver(f, set) ==
    IF set = {} THEN 0
    ELSE LET x == CHOOSE y \in set : TRUE
         IN f[x] + sumOver(f, set \ {x})

\* a weight table that sums to 1.05
weightsOver ==
    [ metaTitle |-> 10, metaDescription |-> 10, headings |-> 8, contentQuality |-> 17,
      keywordDensity |-> 10, internalLinks |-> 8, externalLinks |-> 5, imagesAlt |-> 5,
      pageSpeed |-> 10, mobileCompatibility |-> 8, security |-> 7, socialMetadata |-> 7 ]

\* the weight table, in hundredths: the weights sum to 1.00
weights ==
    [ metaTitle |-> 10, metaDescription |-> 10, headings |-> 8, contentQuality |-> 12,
      keywordDensity |-> 10, internalLinks |-> 8, externalLinks |-> 5, imagesAlt |-> 5,
      pageSpeed |-> 10, mobileCompatibility |-> 8, security |-> 7, socialMetadata |-> 7 ]

\* keys every object inherits from Object.prototype: `factor in weights` is
\* true of them, and weights[factor] is then a function, not a number
InheritedKeys == {"toString", "constructor", "valueOf", "hasOwnProperty"}

\* a number a function returns: NaN, or a value
NaN == [nan |-> TRUE, value |-> 0]
Number(n) == [nan |-> FALSE, value |-> n]

\* calculateSeoScore(factors): factors is a map from keys to numbers
calculateSeoScore(factors) ==
    LET applied == { f \in DOMAIN factors : f \in DOMAIN weights \cup InheritedKeys }
        known == applied \cap DOMAIN weights
        totalWeightedScore == sumOver([f \in known |-> factors[f] * weights[f]], known)
        totalWeightApplied == sumOver(weights, known)
    IN IF applied # known THEN NaN      \* score * function is NaN, and stays NaN
       ELSE IF totalWeightApplied > 0 /\ totalWeightApplied < 100
            THEN Number(roundDiv(totalWeightedScore, totalWeightApplied))
            ELSE Number(roundDiv(totalWeightedScore, 100))

\* the length subscore shared by the title and the description score
lengthScore(length, idealLow, idealHigh, okLow, okHigh) ==
    IF length >= idealLow /\ length <= idealHigh THEN 100
    ELSE IF length >= okLow /\ length <= okHigh THEN 70
    ELSE IF length > 0 THEN 40
    ELSE 0

\* a keyword match that every keyword list passes
keywordMatchAlways(lower, targetKeywords) == TRUE

\* targetKeywords.some(keyword => lower.includes(keyword.toLowerCase()))
keywordMatch(lower, targetKeywords) ==
    \E i \in 1..Len(targetKeywords) : includes(lower, toLowerCase(targetKeywords[i]))

\* a title score that adds the two subscores and does not average them
calculateTitleScoreSum(title, targetKeywords) ==
    IF isFalsy(title) THEN 0
    ELSE lengthScore(Len(title), 50, 60, 40, 70)
         + (IF Len(targetKeywords) > 0 /\ keywordMatch(toLowerCase(title), targetKeywords)
            THEN 100 ELSE 0)

\* calculateTitleScore(title, targetKeywords = [])
calculateTitleScore(title, targetKeywords) ==
    IF isFalsy(title) THEN 0
    ELSE LET score == lengthScore(Len(title), 50, 60, 40, 70)
         IN IF Len(targetKeywords) > 0
            THEN roundDiv(score + (IF keywordMatch(toLowerCase(title), targetKeywords)
                                   THEN 100 ELSE 0), 2)
            ELSE score

\* a description score that keeps the length bands of the title score
calculateDescriptionScoreTitleBands(description, targetKeywords) ==
    calculateTitleScore(description, targetKeywords)

\* calculateDescriptionScore(description, targetKeywords = [])
calculateDescriptionScore(description, targetKeywords) ==
    IF isFalsy(description) THEN 0
    ELSE LET score == lengthScore(Len(description), 150, 160, 120, 170)
         IN IF Len(targetKeywords) > 0
            THEN roundDiv(score + (IF keywordMatch(toLowerCase(description), targetKeywords)
                                   THEN 100 ELSE 0), 2)
            ELSE score

\* Math.max(lo, Math.min(hi, x))
clamp(lo, hi, x) == IF x < lo THEN lo ELSE IF x > hi THEN hi ELSE x

\* the argument of calculateHeadingsScore is of any type: an array, or not
ArrayOf(items) == [isArray |-> TRUE, items |-> items]
NotAnArray == [isArray |-> FALSE, items |-> <<>>]

\* a headings score without the penalty for more than one h1
calculateHeadingsScoreNoPenalty(headings) ==
    IF ~headings.isArray THEN 0
    ELSE LET hs == headings.items
             hasH1 == \E i \in 1..Len(hs) : hs[i].type = "h1"
             hasH2 == \E i \in 1..Len(hs) : hs[i].type = "h2"
             h1Count == Cardinality({ i \in 1..Len(hs) : hs[i].type = "h1" })
         IN clamp(0, 100, (IF hasH1 THEN 50 ELSE 0) + (IF hasH2 THEN 25 ELSE 0)
                          + (IF h1Count = 1 THEN 25 ELSE 0))

\* calculateHeadingsScore(headings)
calculateHeadingsScore(headings) ==
    IF ~headings.isArray THEN 0
    ELSE LET hs == headings.items
             hasH1 == \E i \in 1..Len(hs) : hs[i].type = "h1"
             hasH2 == \E i \in 1..Len(hs) : hs[i].type = "h2"
             h1Count == Cardinality({ i \in 1..Len(hs) : hs[i].type = "h1" })
             score == (IF hasH1 THEN 50 ELSE 0) + (IF hasH2 THEN 25 ELSE 0)
                      + (IF h1Count = 1 THEN 25 ELSE IF h1Count > 1 THEN -25 ELSE 0)
         IN clamp(0, 100, score)

\* a content score that looks at the store: 60 once keywords were saved
calculateContentScoreOfStore(content, minWords) ==
    IF storage[STORAGE_KEYS.SAVED_KEYWORDS] = NoItem THEN 0 ELSE 60

\* calculateContentScore(content, minWords = 300)
calculateContentScore(content, minWords) ==
    IF isFalsy(content) THEN 0
    ELSE LET count == wordCount(content)
             lengths == sentenceLengths(content)
             hasVariety == (\E len \in lengths : len <= 10) /\ (\E len \in lengths : len > 15)
         IN (IF count >= minWords THEN 60 ELSE IF 2 * count >= minWords THEN 30 ELSE 0)
            + (IF paragraphCount(content) >= 3 THEN 20 ELSE 0)
            + (IF hasVariety THEN 20 ELSE 0)

\* a count that stops at the first occurrence
countOccurrencesFirstOnly(str, sub) == IF includes(str, sub) THEN 1 ELSE 0

\* the count of the loop over str.indexOf(sub, lastIndex + 1): the search
\* resumes one character after each occurrence found, so the loop counts
\* every index at which sub occurs, overlapping occurrences included
countOccurrences(str, sub) ==
    Cardinality({ i \in 0..(Len(str) - Len(sub)) : matchesAt(str, sub, i) })

\* calculateKeywordDensityScore(content, keyword); the density is
\* count * keywordWords * 100 / totalWords, compared as a ratio
calculateKeywordDensityScore(content, keyword) ==
    IF isFalsy(content) \/ isFalsy(keyword) THEN 0
    ELSE LET contentLower == toLowerCase(content)
             keywordLower == toLowerCase(keyword)
             count == countOccurrences(contentLower, keywordLower)
             totalWords == wordCount(contentLower)
             matched == count * wordCount(keywordLower) * 100
         IN IF totalWords = 0 THEN 0
            ELSE IF matched >= totalWords /\ matched <= 3 * totalWords THEN 100
            ELSE IF matched > 0 /\ matched < totalWords THEN 70
            ELSE IF matched > 3 * totalWords /\ matched <= 5 * totalWords THEN 50
            ELSE IF matched > 5 * totalWords THEN 30
            ELSE 0


(***************************************************************************)
(* Calls of the scoring functions. The functions are pure: a call records  *)
(* its arguments and its result in scoreCall, and returns.                 *)
(***************************************************************************)
MaxMixedFactors == 2
MaxHeadings == 3
MaxPieces == 3
MaxOccurrences == 3

\* c repeated n times
repeat(c, n) == [i \in 1..n |-> c]

\* piece, count times over
repeatPiece(piece, count) ==
    [i \in 1..(count * Len(piece)) |-> piece[((i - 1) % Len(piece)) + 1]]

\* base, filled with x up to the length
padTo(base, length) == base \o repeat("x", length - Len(base))

\* all sequences of at most n elements of the set
SeqUpTo(set, n) == UNION { [1..k -> set] : k \in 0..n }

RECURSIVE concat(_)
\* the pieces joined
concat(pieces) == IF pieces = <<>> THEN <<>> ELSE Head(pieces) \o concat(Tail(pieces))

\* scores a caller passes for a factor
FactorScores == {0, 60, 80, 100}

FactorKeys == DOMAIN weights \cup {"unknownFactor", "toString"}

\* factor maps: every subset of the known factors at one score, with or
\* without an unknown key, and every map of at most MaxMixedFactors keys
FactorMaps ==
    { [f \in keys |-> score] : keys \in SUBSET (DOMAIN weights \cup {"unknownFactor"}),
                              score \in FactorScores }
    \cup UNION { [keys -> FactorScores] :
                   keys \in { ks \in SUBSET FactorKeys : Cardinality(ks) <= MaxMixedFactors } }

\* lengths on and around the bounds of the bands of a length score
LengthsAround(bands) == {0, 1} \cup UNION { {b - 1, b, b + 1} : b \in bands }

Keyword == <<"s", "e", "o">>

KeywordLists ==
    { <<>>, <<Keyword>>, << <<"S", "E", "O">> >>, << <<"z", "z", "z">> >>,
      << <<"z", "z", "z">>, Keyword >>, << <<>> >> }

\* texts of the given lengths: all filler, or starting with the keyword in mixed case
TextsOf(lengths) ==
    {Null} \cup { padTo(base, n) : base \in { <<>>, <<"S", "e", "o", " ">> },
                                   n \in { l \in lengths : l = 0 \/ l >= 4 } }
           \cup { repeat("x", n) : n \in lengths }

Titles == TextsOf(LengthsAround({40, 50, 60, 70}))

Descriptions == TextsOf(LengthsAround({120, 150, 160, 170}))

HeadingLists ==
    {NotAnArray}
    \cup { ArrayOf(items) : items \in SeqUpTo({ [type |-> t] : t \in {"h1", "h2", "h3"} }, MaxHeadings) }

\* a sentence of sixteen words
LongSentence == repeatPiece(<<"b", " ">>, 16) \o <<".">>

ContentPieces ==
    { <<"a", " ">>, LongSentence, <<"a", ".", "\n", "\n">>, <<"\n", " ", "\t", "\n">>, <<"!", "?">> }

FillerWords == {0, 149, 150, 299, 300}

Contents ==
    {Null} \cup { concat(pieces) \o repeatPiece(<<"w", " ">>, filler) :
                    pieces \in SeqUpTo(ContentPieces, MaxPieces), filler \in FillerWords }

MinWords == {300, 3}

\* fillers that put the density of one to three occurrences on and around
\* the bounds of the density bands
DensityFillers == {0, 1, 19, 20, 32, 33, 49, 50, 96, 97, 99, 100, 199, 200}

\* ten a and one b
TenAOneB == repeatPiece(<<"a", " ">>, 10) \o <<"b">>

DensityContents ==
    {Null, <<>>, <<" ", "\n">>, TenAOneB}
    \cup { repeatPiece(<<"S", "e", "o", " ">>, k) \o repeatPiece(<<"w", " ">>, filler) :
             k \in 0..MaxOccurrences, filler \in DensityFillers }

DensityKeywords ==
    { Null, <<>>, Keyword, <<"S", "E", "O">>, <<"z", "z", "z">>, <<"s", "e", "o", " ", "w">>,
      <<"o">>, <<" ">>, <<"a">> }

Scored(fn, args, result) ==
    /\ scoreCall' = [fn |-> fn, args |-> args, threw |-> FALSE, result |-> result, text |-> NoText]
    /\ UNCHANGED <<env, storage, lastCall, ui>>

CallCalculateSeoScore ==
    /\ scoreCall = NoScoreCall
    /\ \E factors \in FactorMaps :
          Scored("calculateSeoScore", [factors |-> factors], calculateSeoScore(factors))

CallCalculateTitleScore ==
    /\ scoreCall = NoScoreCall
    /\ \E title \in Titles, targetKeywords \in KeywordLists :
          Scored("calculateTitleScore", [title |-> title, targetKeywords |-> targetKeywords],
                 Number(calculateTitleScore(title, targetKeywords)))

CallCalculateDescriptionScore ==
    /\ scoreCall = NoScoreCall
    /\ \E description \in Descriptions, targetKeywords \in KeywordLists :
          Scored("calculateDescriptionScore",
                 [description |-> description, targetKeywords |-> targetKeywords],
                 Number(calculateDescriptionScore(description, targetKeywords)))

CallCalculateHeadingsScore ==
    /\ scoreCall = NoScoreCall
    /\ \E headings \in HeadingLists :
          Scored("calculateHeadingsScore", [headings |-> headings],
                 Number(calculateHeadingsScore(headings)))

CallCalculateContentScore ==
    /\ scoreCall = NoScoreCall
    /\ \E content \in Contents, minWords \in MinWords :
          Scored("calculateContentScore", [content |-> content, minWords |-> minWords],
                 Number(calculateContentScore(content, minWords)))

CallCalculateKeywordDensityScore ==
    /\ scoreCall = NoScoreCall
    /\ \E content \in DensityContents, keyword \in DensityKeywords :
          Scored("calculateKeywordDensityScore", [content |-> content, keyword |-> keyword],
                 Number(calculateKeywordDensityScore(content, keyword)))

(***************************************************************************)
(* The mappings from a score to a label, and the recommendation texts.     *)
(* A score is a number: NaN, or a value.                                   *)
(***************************************************************************)
SCORE_THRESHOLDS == [EXCELLENT |-> 85, GOOD |-> 70, AVERAGE |-> 50, POOR |-> 30]

\* score >= n: false of NaN
atLeast(score, n) == ~score.nan /\ score.value >= n

\* a text returned
Text(str) == [label |-> str, color |-> ""]

\* getScoreCategory(score)
getScoreCategory(score) ==
    IF atLeast(score, SCORE_THRESHOLDS.EXCELLENT) THEN Text("excellent")
    ELSE IF atLeast(score, SCORE_THRESHOLDS.GOOD) THEN Text("good")
    ELSE IF atLeast(score, SCORE_THRESHOLDS.AVERAGE) THEN Text("average")
    ELSE IF atLeast(score, SCORE_THRESHOLDS.POOR) THEN Text("poor")
    ELSE Text("critical")

\* getScoreClass(score)
getScoreClass(score) ==
    IF atLeast(score, SCORE_THRESHOLDS.GOOD) THEN Text("score-high")
    ELSE IF atLeast(score, SCORE_THRESHOLDS.AVERAGE) THEN Text("score-medium")
    ELSE Text("score-low")

\* a score level with the cut points of the category
getScoreLevelCategoryCuts(score) ==
    [label |-> IF atLeast(score, 85) THEN "Excellent"
               ELSE IF atLeast(score, 70) THEN "Good"
               ELSE IF atLeast(score, 50) THEN "Average"
               ELSE IF atLeast(score, 30) THEN "Poor"
               ELSE "Critical",
     color |-> ""]

\* getScoreLevel(score)
getScoreLevel(score) ==
    IF atLeast(score, 80) THEN [label |-> "Excellent", color |-> "green"]
    ELSE IF atLeast(score, 70) THEN [label |-> "Good", color |-> "green"]
    ELSE IF atLeast(score, 50) THEN [label |-> "Average", color |-> "yellow"]
    ELSE IF atLeast(score, 30) THEN [label |-> "Poor", color |-> "red"]
    ELSE [label |-> "Critical", color |-> "red"]

\* the scores passed to the mappings: every whole score of the range, the
\* ones next to it, and NaN
ScoreInputs == {NaN} \cup { Number(n) : n \in (-1)..101 }

Labelled(fn, args, text) ==
    /\ scoreCall' = [fn |-> fn, args |-> args, threw |-> FALSE, result |-> Number(0), text |-> text]
    /\ UNCHANGED <<env, storage, lastCall, ui>>

CallGetScoreCategory ==
    /\ scoreCall = NoScoreCall
    /\ \E score \in ScoreInputs :
          Labelled("getScoreCategory", [score |-> score], getScoreCategory(score))

CallGetScoreClass ==
    /\ scoreCall = NoScoreCall
    /\ \E score \in ScoreInputs :
          Labelled("getScoreClass", [score |-> score], getScoreClass(score))

CallGetScoreLevel ==
    /\ scoreCall = NoScoreCall
    /\ \E score \in ScoreInputs :
          Labelled("getScoreLevel", [score |-> score], getScoreLevel(score))

\* the table of recommendation texts, by factor and category
recommendations ==
    [
      metaTitle |->
        [ low |-> "Your title tag needs improvement. Aim for 50-60 characters and include your primary keyword.",
          medium |-> "Your title is acceptable but could be improved. Ensure it's compelling and includes your primary keyword.",
          high |-> "Great job! Your title tag is well-optimized." ],
      metaDescription |->
        [ low |-> "Your meta description needs improvement. Aim for 150-160 characters and include your primary keyword.",
          medium |-> "Your meta description is acceptable but could be more compelling. Include a call-to-action.",
          high |-> "Excellent! Your meta description is well-optimized." ],
      headings |->
        [ low |-> "Your heading structure needs improvement. Use one H1 tag and create a logical heading hierarchy.",
          medium |-> "Your heading structure is acceptable but could be improved. Ensure a logical hierarchy and include keywords in important headings.",
          high |-> "Great job! Your heading structure is well-organized." ],
      contentQuality |->
        [ low |-> "Your content needs substantial improvement. Aim for at least 300 words of high-quality, original content.",
          medium |-> "Your content is acceptable but could be improved. Add more detail and ensure it provides value to readers.",
          high |-> "Excellent! Your content is comprehensive and valuable." ],
      keywordDensity |->
        [ low |-> "Your keyword density is either too low or too high. Aim for 1-3% keyword density for optimal results.",
          medium |-> "Your keyword density is acceptable but could be improved. Ensure keywords appear naturally throughout the content.",
          high |-> "Great job! Your keyword density is optimal." ],
      internalLinks |->
        [ low |-> "Your page has too few internal links. Add more to improve navigation and distribute page authority.",
          medium |-> "Your internal linking is acceptable but could be improved. Use descriptive anchor text and link to relevant pages.",
          high |-> "Excellent! Your internal linking structure is well-implemented." ],
      externalLinks |->
        [ low |-> "Consider adding more high-quality external links to authoritative sources to improve credibility.",
          medium |-> "Your external links are acceptable but ensure they all point to high-quality, relevant sources.",
          high |-> "Great job! Your external links add value to your content." ],
      imagesAlt |->
        [ low |-> "Many of your images are missing alt text. Add descriptive alt text that includes keywords when appropriate.",
          medium |-> "Some images have good alt text, but others need improvement. Ensure all images have descriptive alt attributes.",
          high |-> "Excellent! Your images have descriptive alt text." ],
      pageSpeed |->
        [ low |-> "Your page speed needs significant improvement. Optimize images, enable compression, and minimize code.",
          medium |-> "Your page speed is acceptable but could be improved. Look for specific opportunities to optimize.",
          high |-> "Great job! Your page loads quickly, which benefits both users and SEO." ],
      mobileCompatibility |->
        [ low |-> "Your page is not mobile-friendly. Implement responsive design to improve mobile user experience.",
          medium |-> "Your page is somewhat mobile-friendly but has issues. Address specific mobile usability problems.",
          high |-> "Excellent! Your page is fully mobile-compatible." ],
      security |->
        [ low |-> "Your page is not secure. Implement HTTPS to protect user data and improve SEO.",
          medium |-> "Your security is acceptable but could be improved. Ensure all resources load over HTTPS.",
          high |-> "Great job! Your page is properly secured with HTTPS." ],
      socialMetadata |->
        [ low |-> "Your page is missing important social media metadata. Add Open Graph and Twitter Card tags.",
          medium |-> "Your social metadata is present but could be improved. Ensure all required properties are included.",
          high |-> "Excellent! Your social media metadata is well-implemented." ]
    ]

\* a category that turns high at 80
categoryOfLevelCuts(score) ==
    IF atLeast(score, 80) THEN "high" ELSE IF atLeast(score, 50) THEN "medium" ELSE "low"

\* score >= 70 ? 'high' : (score >= 50 ? 'medium' : 'low')
categoryOf(score) ==
    IF atLeast(score, 70) THEN "high" ELSE IF atLeast(score, 50) THEN "medium" ELSE "low"

NoRecommendation == "No specific recommendation available."

\* generateRecommendation(factor, score): recommendations[factor] is
\* undefined for an unknown factor, and a function or an object without a
\* property low, medium or high for an inherited one; ?. and || then give
\* the fallback text
generateRecommendation(factor, score) ==
    IF factor \in DOMAIN recommendations
    THEN Text(recommendations[factor][categoryOf(score)])
    ELSE Text(NoRecommendation)

FactorNames == DOMAIN weights \cup {"unknownFactor", "toString", "constructor", ""}

CallGenerateRecommendation ==
    /\ scoreCall = NoScoreCall
    /\ \E factor \in FactorNames, score \in ScoreInputs :
          Labelled("generateRecommendation", [factor |-> factor, score |-> score],
                   generateRecommendation(factor, score))

ReturnScore ==
    /\ scoreCall # NoScoreCall
    /\ scoreCall' = NoScoreCall
    /\ UNCHANGED <<env, storage, lastCall, ui>>

NextScore ==
    \/ CallCalculateSeoScore
    \/ CallCalculateTitleScore
    \/ CallCalculateDescriptionScore
    \/ CallCalculateHeadingsScore
    \/ CallCalculateContentScore
    \/ CallCalculateKeywordDensityScore
    \/ CallGetScoreCategory
    \/ CallGetScoreClass
    \/ CallGetScoreLevel
    \/ CallGenerateRecommendation
    \/ ReturnScore

SpecScore == Init /\ [][NextScore]_vars

SubScoreFunctions ==
    { "calculateTitleScore", "calculateDescriptionScore", "calculateHeadingsScore",
      "calculateContentScore", "calculateKeywordDensityScore" }

inRange(result) == ~result.nan /\ result.value >= 0 /\ result.value <= 100

\* C9: whatever its input, each of calculateTitleScore, calculateDescriptionScore,
\* calculateHeadingsScore, calculateContentScore and calculateKeywordDensityScore
\* returns a score s with 0 <= s <= 100
C9_SubScoresInRange ==
    scoreCall.fn \in SubScoreFunctions => inRange(scoreCall.result)

\* the five functions have each returned, and both ends of the range are met:
\* here a content of three paragraphs, enough words and varied sentences
\* has scored 100
C9_Witness ==
    /\ scoreCall.fn = "calculateContentScore"
    /\ scoreCall.args.minWords = 300
    /\ scoreCall.result = Number(100)

\* C10: for a factor map over any of the twelve known factors, all twelve
\* included, with scores in [0,100], calculateSeoScore returns a score s with
\* 0 <= s <= 100
C10_SeoScoreInRange ==
    (/\ scoreCall.fn = "calculateSeoScore"
     /\ DOMAIN scoreCall.args.factors \subseteq DOMAIN weights)
    => inRange(scoreCall.result)

\* all twelve factors at 100 have scored 100
C10_Witness ==
    /\ scoreCall.fn = "calculateSeoScore"
    /\ DOMAIN scoreCall.args.factors = DOMAIN weights
    /\ \A f \in DOMAIN weights : scoreCall.args.factors[f] = 100
    /\ scoreCall.result = Number(100)

\* the result the weight table gives for the factors whose key is in it:
\* round(S / W) when 0 < W < 1, round(S) otherwise
weightedResult(factors) ==
    LET known == DOMAIN factors \cap DOMAIN weights
        S == sumOver([f \in known |-> factors[f] * weights[f]], known)
        W == sumOver(weights, known)
    IN Number(IF W > 0 /\ W < 100 THEN roundDiv(S, W) ELSE roundDiv(S, 100))

\* C11: calculateSeoScore(factors) depends only on the factors whose key is
\* in the weight table: it returns round(S / W) when 0 < W < 1 and round(S)
\* otherwise, and a key outside the table never changes the result
C11_DependsOnlyOnKnownFactors ==
    scoreCall.fn = "calculateSeoScore"
    => scoreCall.result = weightedResult(scoreCall.args.factors)

\* C11 holds of the factor maps without a key that the weight table
\* inherits: e.g. metaTitle 80 and contentQuality 60 give 69
C11_HoldsWithoutInheritedKeys ==
    (/\ scoreCall.fn = "calculateSeoScore"
     /\ DOMAIN scoreCall.args.factors \cap InheritedKeys = {})
    => scoreCall.result = weightedResult(scoreCall.args.factors)

\* metaTitle 80 with the key toString beside it has scored NaN, not 80
C11_Witness ==
    /\ scoreCall.fn = "calculateSeoScore"
    /\ scoreCall.args.factors = [f \in {"metaTitle", "toString"} |-> 80]
    /\ scoreCall.result = NaN

\* whether two characters are the same letter, whatever their case
sameLetter(c, d) ==
    \/ c = d
    \/ \E i \in 1..Len(UpperCase) : {c, d} = {UpperCase[i], LowerCase[i]}

\* whether keyword is a case-insensitive substring of text
occursIn(keyword, text) ==
    \E start \in 0..(Len(text) - Len(keyword)) :
        \A j \in 1..Len(keyword) : sameLetter(text[start + j], keyword[j])

\* the rule of a title score for a length band: 0 for an absent or empty
\* text; else with L = 100 inside the ideal band, 70 inside the acceptable
\* band, 40 for any other length, L for an empty keyword list and
\* round((L + K) / 2) for a non-empty one, K = 100 if some keyword occurs in
\* the text
bandRule(text, keywords, idealLow, idealHigh, okLow, okHigh) ==
    IF text = Null \/ Len(text) = 0 THEN 0
    ELSE LET L == IF idealLow <= Len(text) /\ Len(text) <= idealHigh THEN 100
                  ELSE IF okLow <= Len(text) /\ Len(text) <= okHigh THEN 70
                  ELSE 40
             K == IF \E i \in 1..Len(keywords) : occursIn(keywords[i], text) THEN 100 ELSE 0
         IN IF Len(keywords) = 0 THEN L
            ELSE IF (L + K) % 2 = 0 THEN (L + K) \div 2 ELSE (L + K + 1) \div 2

\* C12: calculateTitleScore(title, keywords) is 0 for an absent or empty
\* title; else L (100 for 50 <= len <= 60, 70 for 40 <= len <= 70, 40
\* otherwise) when the keyword list is empty and round((L + K) / 2) when it
\* is not, K = 100 if some keyword is a case-insensitive substring of the title
C12_TitleScoreRule ==
    scoreCall.fn = "calculateTitleScore"
    => scoreCall.result =
         Number(bandRule(scoreCall.args.title, scoreCall.args.targetKeywords, 50, 60, 40, 70))

\* a title of ideal length that starts with Seo has scored 100 against the keyword SEO
C12_Witness ==
    /\ scoreCall.fn = "calculateTitleScore"
    /\ scoreCall.args.title # Null
    /\ Len(scoreCall.args.title) = 50
    /\ scoreCall.args.targetKeywords = << <<"S", "E", "O">> >>
    /\ scoreCall.result = Number(100)

\* C13: for a non-empty title, the score with an empty keyword list is
\* strictly greater than the score with a non-empty keyword list none of
\* whose keywords occurs in the title
C13_NoKeywordsBeatsMissedKeywords ==
    (/\ scoreCall.fn = "calculateTitleScore"
     /\ ~isFalsy(scoreCall.args.title)
     /\ Len(scoreCall.args.targetKeywords) > 0
     /\ \A i \in 1..Len(scoreCall.args.targetKeywords) :
           ~occursIn(scoreCall.args.targetKeywords[i], scoreCall.args.title))
    => scoreCall.result.value < calculateTitleScore(scoreCall.args.title, <<>>)

\* a title of 51 characters has scored 50 against a keyword it does not
\* hold, and scores 100 without keywords
C13_Witness ==
    /\ scoreCall.fn = "calculateTitleScore"
    /\ scoreCall.args.title = repeat("x", 51)
    /\ scoreCall.args.targetKeywords = << <<"z", "z", "z">> >>
    /\ scoreCall.result = Number(50)
    /\ calculateTitleScore(scoreCall.args.title, <<>>) = 100

\* C14: calculateDescriptionScore computes the rule of calculateTitleScore
\* with the ideal band [150,160] and the acceptable band [120,170]: for every
\* description and keyword list its result is that rule's result
C14_DescriptionScoreIsTitleRule ==
    scoreCall.fn = "calculateDescriptionScore"
    => scoreCall.result =
         Number(bandRule(scoreCall.args.description, scoreCall.args.targetKeywords,
                         150, 160, 120, 170))

\* a description of 160 characters that starts with Seo has scored 100
\* against the keyword seo; as a title the same text scores 70
C14_Witness ==
    /\ scoreCall.fn = "calculateDescriptionScore"
    /\ scoreCall.args.description = padTo(<<"S", "e", "o", " ">>, 160)
    /\ scoreCall.args.targetKeywords = <<Keyword>>
    /\ scoreCall.result = Number(100)
    /\ calculateTitleScore(scoreCall.args.description, scoreCall.args.targetKeywords) = 70

\* the number of headings of a type in an array
headingsOfType(items, type) == Cardinality({ i \in 1..Len(items) : items[i].type = type })

\* C15: for an array of headings calculateHeadingsScore returns, clamped to
\* [0,100], 50 if there is an h1, plus 25 if there is an h2, plus 25 if there
\* is exactly one h1 or minus 25 if there are several; an argument that is no
\* array gives 0
C15_HeadingsScoreRule ==
    scoreCall.fn = "calculateHeadingsScore"
    => LET headings == scoreCall.args.headings
           h1 == headingsOfType(headings.items, "h1")
           h2 == headingsOfType(headings.items, "h2")
           raw == (IF h1 >= 1 THEN 50 ELSE 0) + (IF h2 >= 1 THEN 25 ELSE 0)
                  + (IF h1 = 1 THEN 25 ELSE IF h1 > 1 THEN -25 ELSE 0)
       IN scoreCall.result =
            Number(IF ~headings.isArray THEN 0
                   ELSE IF raw < 0 THEN 0 ELSE IF raw > 100 THEN 100 ELSE raw)

\* two h1 and one h2 have scored 50
C15_Witness ==
    /\ scoreCall.fn = "calculateHeadingsScore"
    /\ scoreCall.args.headings =
         ArrayOf(<<[type |-> "h1"], [type |-> "h1"], [type |-> "h2"]>>)
    /\ scoreCall.result = Number(50)

\* the sum of the claim C16 for a content that is neither absent nor empty,
\* given the word counts of its sentences
contentRule(content, minWords, lengths) ==
    (IF wordCount(content) >= minWords THEN 60
     ELSE IF 2 * wordCount(content) >= minWords THEN 30 ELSE 0)
    + (IF paragraphCount(content) >= 3 THEN 20 ELSE 0)
    + (IF (\E n \in lengths : n <= 10) /\ (\E n \in lengths : n > 15) THEN 20 ELSE 0)

\* C16: calculateContentScore(content, minWords) is the sum of 60 if
\* wordCount >= minWords, else 30 if wordCount >= minWords / 2; 20 if the
\* content splits on blank lines into at least 3 paragraphs; 20 if at least
\* one sentence has <= 10 words and at least one has > 15 words; it never
\* exceeds 100, and absent or empty content gives 0. A sentence is a piece
\* between full stops, exclamation and question marks that holds a word.
C16_ContentScoreRule ==
    scoreCall.fn = "calculateContentScore"
    => LET content == scoreCall.args.content
       IN /\ scoreCall.result.value <= 100
          /\ scoreCall.result =
               Number(IF content = Null \/ content = <<>> THEN 0
                      ELSE contentRule(content, scoreCall.args.minWords,
                                       { n \in sentenceLengths(content) : n > 0 }))

\* C16 holds when a piece of white space after a full stop is counted as a
\* sentence of no words
C16_HoldsCountingBlankPieces ==
    scoreCall.fn = "calculateContentScore"
    => LET content == scoreCall.args.content
       IN /\ scoreCall.result.value <= 100
          /\ scoreCall.result =
               Number(IF content = Null \/ content = <<>> THEN 0
                      ELSE contentRule(content, scoreCall.args.minWords,
                                       sentenceLengths(content)))

\* one sentence of sixteen words, followed by white space only, has scored
\* 20 for the variety of its sentences
C16_Witness ==
    /\ scoreCall.fn = "calculateContentScore"
    /\ scoreCall.args.content = LongSentence \o <<"\n", " ", "\t", "\n">>
    /\ scoreCall.args.minWords = 300
    /\ scoreCall.result = Number(20)

\* the number of case-insensitive substring matches of keyword in content
matchesOf(keyword, content) ==
    Cardinality({ start \in 0..(Len(content) - Len(keyword)) :
                    \A j \in 1..Len(keyword) : sameLetter(content[start + j], keyword[j]) })

\* the band of the density n / d per cent: the score of the claim C17
densityBand(n, d) ==
    IF d <= n /\ n <= 3 * d THEN 100
    ELSE IF 0 < n /\ n < d THEN 70
    ELSE IF 3 * d < n /\ n <= 5 * d THEN 50
    ELSE IF n > 5 * d THEN 30
    ELSE 0

\* the bands of the claim C17 that hold the density n / d per cent
bandsOf(n, d) ==
    { b \in {"1 to 3", "below 1", "3 to 5", "above 5", "none"} :
        \/ b = "1 to 3" /\ d <= n /\ n <= 3 * d
        \/ b = "below 1" /\ 0 < n /\ n < d
        \/ b = "3 to 5" /\ 3 * d < n /\ n <= 5 * d
        \/ b = "above 5" /\ n > 5 * d
        \/ b = "none" /\ n = 0 }

\* C17: calculateKeywordDensityScore(content, keyword) returns the score of
\* the band of density = occurrences * wordsInKeyword * 100 / totalWords,
\* occurrences being the case-insensitive substring matches of the keyword:
\* 100 for [1,3], 70 for (0,1), 50 for (3,5], 30 above 5, and 0 otherwise (no
\* occurrence, empty content, empty keyword, no words); every density is in
\* exactly one band
C17_DensityScoreRule ==
    scoreCall.fn = "calculateKeywordDensityScore"
    => LET content == scoreCall.args.content
           keyword == scoreCall.args.keyword
           absent == content = Null \/ content = <<>> \/ keyword = Null \/ keyword = <<>>
           n == matchesOf(keyword, content) * wordCount(keyword) * 100
           d == wordCount(content)
       IN IF absent \/ d = 0 THEN scoreCall.result = Number(0)
          ELSE /\ scoreCall.result = Number(densityBand(n, d))
               /\ Cardinality(bandsOf(n, d)) = 1

\* ten a and one b have scored 30 for the keyword a
C17_Witness ==
    /\ scoreCall.fn = "calculateKeywordDensityScore"
    /\ scoreCall.args.content = TenAOneB
    /\ scoreCall.args.keyword = <<"a">>
    /\ scoreCall.result = Number(30)

\* the label of the band of a score, the bands closed at their lower cut
\* points; cuts and labels go from the highest band down, and the last
\* label is the one below every cut
labelAt(score, cuts, labels) ==
    LET passed == { i \in 1..Len(cuts) : ~score.nan /\ score.value >= cuts[i] }
    IN IF passed = {} THEN labels[Len(labels)]
       ELSE labels[CHOOSE i \in passed : \A j \in passed : i <= j]

\* C18: getScoreCategory returns excellent / good / average / poor / critical
\* at the cut points 85 / 70 / 50 / 30, getScoreClass returns score-high /
\* score-medium / score-low at 70 / 50, getScoreLevel returns Excellent / Good
\* / Average / Poor / Critical at 80 / 70 / 50 / 30, each band closed at its
\* lower cut point; for a score in [80,85) the level is Excellent and the
\* category good
C18_LabelMappings ==
    LET score == scoreCall.args.score
    IN /\ scoreCall.fn = "getScoreCategory"
          => /\ scoreCall.text.label =
                  labelAt(score, <<85, 70, 50, 30>>,
                          <<"excellent", "good", "average", "poor", "critical">>)
             /\ (atLeast(score, 80) /\ ~atLeast(score, 85))
                  => /\ scoreCall.text.label = "good"
                     /\ getScoreLevel(score).label = "Excellent"
       /\ scoreCall.fn = "getScoreClass"
          => scoreCall.text.label =
               labelAt(score, <<70, 50>>, <<"score-high", "score-medium", "score-low">>)
       /\ scoreCall.fn = "getScoreLevel"
          => scoreCall.text.label =
               labelAt(score, <<80, 70, 50, 30>>,
                       <<"Excellent", "Good", "Average", "Poor", "Critical">>)

\* the score 84 has the category good, and its level is Excellent
C18_Witness ==
    /\ scoreCall.fn = "getScoreCategory"
    /\ scoreCall.args.score = Number(84)
    /\ scoreCall.text.label = "good"
    /\ getScoreLevel(scoreCall.args.score).label = "Excellent"

\* the bucket of a score in the claim C19
bucketOf(n) == IF n < 50 THEN "low" ELSE IF n < 70 THEN "medium" ELSE "high"

\* C19: generateRecommendation(factor, score) returns, for each of the twelve
\* known factor names, that factor's text for the bucket low (score < 50),
\* medium (50 <= score < 70) or high (score >= 70), and the text "No specific
\* recommendation available." for every other factor name, whatever the score
C19_RecommendationByBucket ==
    (scoreCall.fn = "generateRecommendation" /\ ~scoreCall.args.score.nan)
    => LET factor == scoreCall.args.factor
           n == scoreCall.args.score.value
       IN /\ DOMAIN recommendations = DOMAIN weights
          /\ Cardinality(DOMAIN weights) = 12
          /\ factor \in DOMAIN weights
               => scoreCall.text.label = recommendations[factor][bucketOf(n)]
          /\ factor \notin DOMAIN weights
               => scoreCall.text.label = "No specific recommendation available."

\* pageSpeed at 69 has got its medium text, and the three texts of pageSpeed differ
C19_Witness ==
    /\ scoreCall.fn = "generateRecommendation"
    /\ scoreCall.args = [factor |-> "pageSpeed", score |-> Number(69)]
    /\ scoreCall.text.label = recommendations["pageSpeed"]["medium"]
    /\ Cardinality({ recommendations["pageSpeed"][c] : c \in {"low", "medium", "high"} }) = 3

(***************************************************************************)
(* The scoring functions called with arguments of any type, as JavaScript  *)
(* allows. A value carries its type; reading a property of null or         *)
(* undefined, and calling a method a value does not have, throw a          *)
(* TypeError. An outcome is a throw or a returned number.                  *)
(***************************************************************************)
Undefined == [type |-> "undefined"]
JSNull == [type |-> "null"]
Num(n) == [type |-> "number", num |-> n]
Str(str) == [type |-> "string", str |-> str]
Arr(items) == [type |-> "array", items |-> items]
Obj(props) == [type |-> "object", props |-> props]

TypeError == [threw |-> TRUE, result |-> Number(0)]
Returns(n) == [threw |-> FALSE, result |-> Number(n)]

\* !value
isFalsyValue(v) ==
    \/ v.type \in {"undefined", "null"}
    \/ v.type = "string" /\ v.str = <<>>
    \/ v.type = "number" /\ v.num = 0

\* value.length as a number, -1 for undefined: every comparison with
\* undefined is false, as are the comparisons of -1 in the length checks
lengthOf(v) ==
    IF v.type = "string" THEN Len(v.str)
    ELSE IF v.type = "array" THEN Len(v.items)
    ELSE -1

\* targetKeywords.some(keyword => lower.includes(keyword.toLowerCase())):
\* "match", "none", or "threw" at a keyword without the method toLowerCase
\* that is reached before a match
RECURSIVE someKeywordMatches(_, _)
someKeywordMatches(lower, items) ==
    IF items = <<>> THEN "none"
    ELSE IF Head(items).type # "string" THEN "threw"
    ELSE IF includes(lower, toLowerCase(Head(items).str)) THEN "match"
    ELSE someKeywordMatches(lower, Tail(items))

\* the body shared by calculateTitleScore and calculateDescriptionScore,
\* for arguments of any type; an undefined keyword list is the default []
lengthAndKeywordScore(text, targetKeywords, idealLow, idealHigh, okLow, okHigh) ==
    IF isFalsyValue(text) THEN Returns(0)
    ELSE LET score == lengthScore(lengthOf(text), idealLow, idealHigh, okLow, okHigh)
             keywords == IF targetKeywords.type = "undefined" THEN Arr(<<>>)
                         ELSE targetKeywords
         IN IF keywords.type = "null" THEN TypeError           \* null.length
            ELSE IF ~(lengthOf(keywords) > 0) THEN Returns(score)
            ELSE IF text.type # "string" THEN TypeError        \* no toLowerCase
            ELSE IF keywords.type # "array" THEN TypeError     \* no some
            ELSE LET found == someKeywordMatches(toLowerCase(text.str), keywords.items)
                 IN IF found = "threw" THEN TypeError
                    ELSE Returns(roundDiv(score + (IF found = "match" THEN 100 ELSE 0), 2))

\* calculateTitleScore(title, targetKeywords) for arguments of any type
calculateTitleScoreOfAny(title, targetKeywords) ==
    lengthAndKeywordScore(title, targetKeywords, 50, 60, 40, 70)

\* calculateDescriptionScore(description, targetKeywords) for arguments of any type
calculateDescriptionScoreOfAny(description, targetKeywords) ==
    lengthAndKeywordScore(description, targetKeywords, 150, 160, 120, 170)

\* h.type of an element of the array: a string, "" for undefined
typeOfHeading(h) ==
    IF h.type = "object" /\ "type" \in DOMAIN h.props THEN h.props.type ELSE ""

\* calculateHeadingsScore(headings) for an argument of any type: h.type
\* throws at a null or undefined element, and filter visits every element
calculateHeadingsScoreOfAny(headings) ==
    IF isFalsyValue(headings) \/ headings.type # "array" THEN Returns(0)
    ELSE IF \E i \in 1..Len(headings.items) : headings.items[i].type \in {"null", "undefined"}
         THEN TypeError
    ELSE Returns(calculateHeadingsScore(
                   ArrayOf([i \in 1..Len(headings.items) |->
                              [type |-> typeOfHeading(headings.items[i])]])))

\* calculateContentScore(content, minWords) for a content of any type and
\* minWords a number or undefined: only a string has the method split
calculateContentScoreOfAny(content, minWords) ==
    IF isFalsyValue(content) THEN Returns(0)
    ELSE IF content.type # "string" THEN TypeError
    ELSE Returns(calculateContentScore(content.str,
                                       IF minWords.type = "undefined" THEN 300 ELSE minWords.num))

\* calculateKeywordDensityScore(content, keyword) for arguments of any type:
\* only a string has the method toLowerCase
calculateKeywordDensityScoreOfAny(content, keyword) ==
    IF isFalsyValue(content) \/ isFalsyValue(keyword) THEN Returns(0)
    ELSE IF content.type # "string" \/ keyword.type # "string" THEN TypeError
    ELSE Returns(calculateKeywordDensityScore(content.str, keyword.str))

\* calculateSeoScore(factors) for an argument of any type: Object.entries
\* throws for null and undefined; the entries of a number are none, and the
\* keys of a string or an array are indexes, which the weight table lacks;
\* a factor whose value is no number is skipped
calculateSeoScoreOfAny(factors) ==
    IF factors.type \in {"null", "undefined"} THEN TypeError
    ELSE IF factors.type # "object" THEN Returns(0)
    ELSE LET numbers == { f \in DOMAIN factors.props : factors.props[f].type = "number" }
             outcome == calculateSeoScore([f \in numbers |-> factors.props[f].num])
         IN [threw |-> FALSE, result |-> outcome]

\* texts of any type: absent, a number, the empty string, strings of the
\* ideal length without and with the keyword, an array
TextValues(length) ==
    { Undefined, JSNull, Num(5), Str(<<>>), Str(repeat("x", length)),
      Str(padTo(<<"S", "e", "o", " ">>, length)), Arr(<<Str(<<"a">>)>>) }

\* keyword lists of any type: absent, empty, of strings, with an element
\* that is no string before or after a keyword that matches, and no array
KeywordListValues ==
    { Undefined, JSNull, Arr(<<>>), Arr(<<Str(Keyword)>>), Arr(<<Num(5)>>), Arr(<<JSNull>>),
      Arr(<<Str(Keyword), Num(5)>>), Arr(<<Num(5), Str(Keyword)>>), Str(Keyword), Num(5) }

\* elements of a headings array: headings, and elements that are none
HeadingElements ==
    { Obj([type |-> "h1"]), Obj([type |-> "h2"]), JSNull, Undefined, Num(5) }

HeadingsValues ==
    { Undefined, JSNull, Num(5), Str(<<"h", "1">>), Obj([type |-> "h1"]) }
    \cup { Arr(items) : items \in SeqUpTo(HeadingElements, MaxHeadings) }

ContentValues ==
    { Undefined, JSNull, Num(5), Str(<<>>), Str(LongSentence \o <<"a", " ">>), Str(TenAOneB),
      Arr(<<Str(<<"a">>)>>), Obj([text |-> "a"]) }

MinWordsValues == { Undefined, Num(300), Num(3) }

KeywordValues == { Undefined, JSNull, Num(5), Str(<<>>), Str(<<"a">>), Arr(<<Str(<<"a">>)>>) }

FactorsValues ==
    { Undefined, JSNull, Num(5), Str(<<"a">>), Arr(<<Num(80)>>), Obj(<<>>),
      Obj([metaTitle |-> Num(80)]), Obj([metaTitle |-> Num(80), headings |-> Str(<<"8", "0">>)]),
      Obj([metaTitle |-> JSNull]), Obj([metaTitle |-> Num(80), unknownFactor |-> Undefined]) }

Outcome(fn, args, outcome) ==
    /\ scoreCall' = [fn |-> fn, args |-> args, threw |-> outcome.threw,
                     result |-> outcome.result, text |-> NoText]
    /\ UNCHANGED <<env, storage, lastCall, ui>>

CallCalculateSeoScoreOfAny ==
    /\ scoreCall = NoScoreCall
    /\ \E factors \in FactorsValues :
          Outcome("calculateSeoScore", [factors |-> factors], calculateSeoScoreOfAny(factors))

CallCalculateTitleScoreOfAny ==
    /\ scoreCall = NoScoreCall
    /\ \E title \in TextValues(55), targetKeywords \in KeywordListValues :
          Outcome("calculateTitleScore", [title |-> title, targetKeywords |-> targetKeywords],
                  calculateTitleScoreOfAny(title, targetKeywords))

CallCalculateDescriptionScoreOfAny ==
    /\ scoreCall = NoScoreCall
    /\ \E description \in TextValues(155), targetKeywords \in KeywordListValues :
          Outcome("calculateDescriptionScore",
                  [description |-> description, targetKeywords |-> targetKeywords],
                  calculateDescriptionScoreOfAny(description, targetKeywords))

CallCalculateHeadingsScoreOfAny ==
    /\ scoreCall = NoScoreCall
    /\ \E headings \in HeadingsValues :
          Outcome("calculateHeadingsScore", [headings |-> headings],
                  calculateHeadingsScoreOfAny(headings))

CallCalculateContentScoreOfAny ==
    /\ scoreCall = NoScoreCall
    /\ \E content \in ContentValues, minWords \in MinWordsValues :
          Outcome("calculateContentScore", [content |-> content, minWords |-> minWords],
                  calculateContentScoreOfAny(content, minWords))

CallCalculateKeywordDensityScoreOfAny ==
    /\ scoreCall = NoScoreCall
    /\ \E content \in ContentValues, keyword \in KeywordValues :
          Outcome("calculateKeywordDensityScore", [content |-> content, keyword |-> keyword],
                  calculateKeywordDensityScoreOfAny(content, keyword))

NextAny ==
    \/ CallCalculateSeoScoreOfAny
    \/ CallCalculateTitleScoreOfAny
    \/ CallCalculateDescriptionScoreOfAny
    \/ CallCalculateHeadingsScoreOfAny
    \/ CallCalculateContentScoreOfAny
    \/ CallCalculateKeywordDensityScoreOfAny
    \/ CallGetScoreCategory
    \/ CallGetScoreClass
    \/ CallGetScoreLevel
    \/ CallGenerateRecommendation
    \/ ReturnScore

SpecAny == Init /\ [][NextAny]_vars

\* C20: no scoring function throws: for every input, absent values (a null
\* or undefined title, content, headings or keyword list) and malformed
\* values (a headings array with a null element, a keyword list with an
\* element that is no string, a title that is no string) included, each
\* calculateX, getScoreX and generateRecommendation returns
C20_NoScoringFunctionThrows == ~scoreCall.threw

\* C20 holds of a title, description, headings or content that is null,
\* undefined or empty: the function returns 0, whatever its other argument
C20_AbsentFirstArgumentGivesZero ==
    LET args == scoreCall.args
        first == IF scoreCall.fn = "calculateTitleScore" THEN args.title
                 ELSE IF scoreCall.fn = "calculateDescriptionScore" THEN args.description
                 ELSE IF scoreCall.fn = "calculateHeadingsScore" THEN args.headings
                 ELSE args.content
    IN (/\ scoreCall.fn \in SubScoreFunctions
        /\ first \in {Undefined, JSNull, Str(<<>>)})
       => ~scoreCall.threw /\ scoreCall.result = Number(0)

\* calculateHeadingsScore has thrown for an array that holds null beside an h1
C20_Witness ==
    /\ scoreCall.fn = "calculateHeadingsScore"
    /\ scoreCall.args.headings = Arr(<<Obj([type |-> "h1"]), JSNull>>)
    /\ scoreCall.threw

(***************************************************************************)
(* SpecPure: the scoring functions called by a page while its event        *)
(* handlers also save and delete in the store. A call is made, store       *)
(* operations run, and the same call is made again.                        *)
(***************************************************************************)
ScoringSamples ==
    { [fn |-> "calculateSeoScore",
       args |-> [factors |-> [f \in {"metaTitle", "headings"} |-> IF f = "metaTitle" THEN 80 ELSE 50]]],
      [fn |-> "calculateTitleScore",
       args |-> [title |-> <<"S", "e", "o">>, targetKeywords |-> << <<"s", "E", "o">> >>]],
      [fn |-> "calculateDescriptionScore",
       args |-> [description |-> <<"S", "e", "o">>, targetKeywords |-> <<>>]],
      [fn |-> "calculateHeadingsScore",
       args |-> [headings |-> ArrayOf(<<[type |-> "h1"], [type |-> "h2"]>>)]],
      [fn |-> "calculateContentScore",
       args |-> [content |-> <<"a", " ", "b">>, minWords |-> 4]],
      [fn |-> "calculateKeywordDensityScore",
       args |-> [content |-> TenAOneB, keyword |-> <<"b">>]] }

\* the call fn(...args), evaluated in the current state
applyScoring(fn, args) ==
    CASE fn = "calculateSeoScore" -> calculateSeoScore(args.factors)
      [] fn = "calculateTitleScore" -> Number(calculateTitleScore(args.title, args.targetKeywords))
      [] fn = "calculateDescriptionScore" ->
            Number(calculateDescriptionScore(args.description, args.targetKeywords))
      [] fn = "calculateHeadingsScore" -> Number(calculateHeadingsScore(args.headings))
      [] fn = "calculateContentScore" -> Number(calculateContentScore(args.content, args.minWords))
      [] fn = "calculateKeywordDensityScore" ->
            Number(calculateKeywordDensityScore(args.content, args.keyword))

\* the first call: its result and the storage it ran in are recorded
CallScoringFunction ==
    /\ scoreCall = NoScoreCall
    /\ \E s \in ScoringSamples :
          scoreCall' = [fn |-> s.fn, args |-> s.args, threw |-> FALSE,
                        result |-> applyScoring(s.fn, s.args), text |-> NoText,
                        storageAtCall |-> storage,
                        again |-> [called |-> FALSE, result |-> Number(0)]]
    /\ UNCHANGED <<env, storage, lastCall, ui>>

\* the same call with the same arguments, later
RepeatScoringCall ==
    /\ scoreCall # NoScoreCall
    /\ ~scoreCall.again.called
    /\ scoreCall' = [scoreCall EXCEPT
                        !.again = [called |-> TRUE, result |-> applyScoring(scoreCall.fn, scoreCall.args)]]
    /\ UNCHANGED <<env, storage, lastCall, ui>>

SaveKeywordBetweenCalls ==
    /\ lastCall = NoCall
    /\ \E k \in KeywordInputs({1}), t1 \in Times, f \in Faults : CallSaveKeyword(k, t1, f)

DeleteKeywordBetweenCalls ==
    /\ lastCall = NoCall
    /\ \E f \in Faults : CallDeleteKeyword(1, f)

NextPure ==
    \/ CallScoringFunction
    \/ RepeatScoringCall
    \/ ReturnScore
    \/ SaveKeywordBetweenCalls
    \/ DeleteKeywordBetweenCalls
    \/ Return

SpecPure == Init /\ [][NextPure]_vars

MaxGenerated == 3

\* readings of Date.now(): like today's readings, which all have eight
\* base-36 digits, the readings of the model all have the same number of
\* digits (two); the clock never runs backwards within a run
ClockReadings == {36, 37, 71}

Base36Digits ==
    << "0", "1", "2", "3", "4", "5", "6", "7", "8", "9", "a", "b", "c", "d", "e", "f", "g", "h",
       "i", "j", "k", "l", "m", "n", "o", "p", "q", "r", "s", "t", "u", "v", "w", "x", "y", "z" >>

\* Number.prototype.toString(36) of a whole number n >= 0
RECURSIVE toString36(_)
toString36(n) ==
    IF n < 36 THEN <<Base36Digits[n + 1]>>
    ELSE toString36(n \div 36) \o <<Base36Digits[(n % 36) + 1]>>

\* Math.random().toString(36): a number r with 0 <= r < 1 is written "0" when
\* it is 0 and "0." followed by the digits of its base-36 fraction otherwise:
\* one digit for 0.5 ("0.i"), about eleven for most values
RandomTexts ==
    { <<"0">>,
      <<"0", ".", "i">>,
      <<"0", ".", "4", "i">>,
      <<"0", ".", "a", "b", "c", "d", "e">>,
      <<"0", ".", "a", "b", "c", "d", "e", "f">>,
      <<"0", ".", "a", "b", "c", "d", "e", "g", "h">> }

\* String.prototype.substr(start, length), start counted from 0
substr(str, start, length) ==
    SubSeq(str, start + 1, IF start + length < Len(str) THEN start + length ELSE Len(str))

\* generateId(), given what Date.now() and Math.random().toString(36) return
generateId(now, randomText) == toString36(now) \o substr(randomText, 2, 5)

\* the calls made so far in the run, oldest first
generated == IF ui = NoPage THEN <<>> ELSE ui.generated

CallGenerateId ==
    /\ Len(generated) < MaxGenerated
    /\ \E now \in ClockReadings, randomText \in RandomTexts :
          /\ \A i \in 1..Len(generated) : generated[i].now <= now
          /\ ui' = [page |-> "generateId loop",
                    generated |-> Append(generated,
                        [id |-> generateId(now, randomText), now |-> now, randomText |-> randomText])]
    /\ UNCHANGED <<env, storage, lastCall, scoreCall>>

NextIds == CallGenerateId

SpecIds == Init /\ [][NextIds]_vars

\* id is stamp followed by a suffix of base-36 digits whose length is in lengths
stampThenSuffix(id, stamp, lengths) ==
    /\ Len(id) - Len(stamp) \in lengths
    /\ SubSeq(id, 1, Len(stamp)) = stamp
    /\ \A k \in (Len(stamp) + 1)..Len(id) : \E d \in 1..36 : id[k] = Base36Digits[d]

\* C22: the ids of one run are pairwise distinct, and each is the base-36
\* timestamp followed by a random base-36 suffix of 5 characters
C22_IdsDistinctWithFiveCharSuffix ==
    /\ \A i, j \in 1..Len(generated) : i # j => generated[i].id # generated[j].id
    /\ \A i \in 1..Len(generated) :
          stampThenSuffix(generated[i].id, toString36(generated[i].now), {5})

\* what holds of C22: each id is the base-36 timestamp followed by at most 5
\* base-36 digits, and two ids of a run are equal exactly when the clock
\* read the same and the first five digits of the random fractions agree
C22_DistinctWhenClockOrSuffixDiffers ==
    /\ \A i \in 1..Len(generated) :
          stampThenSuffix(generated[i].id, toString36(generated[i].now), 0..5)
    /\ \A i, j \in 1..Len(generated) :
          generated[i].id = generated[j].id
            <=> /\ generated[i].now = generated[j].now
                /\ substr(generated[i].randomText, 2, 5) = substr(generated[j].randomText, 2, 5)

\* two calls of one run, with different random numbers, returned the same id
C22_Witness ==
    \E i, j \in 1..Len(generated) :
        /\ i < j
        /\ generated[i].randomText # generated[j].randomText
        /\ generated[i].id = generated[j].id
        /\ generated[i].id = <<"1", "0", "a", "b", "c", "d", "e">>

(***************************************************************************)
(* SpecSteps: event handlers and timer callbacks that save entities with   *)
(* new ids, each save taken as its two storage accesses: the read of the   *)
(* collection at its start and the write back at its end. The handlers     *)
(* are the timeout callback of the analyzer page (saveAnalysisResult) and  *)
(* the click handler of the keywords page (saveKeyword).                   *)
(***************************************************************************)
\* analyses already in the collection, and the saves the handlers make
StoredAnalyses == 8
NewAnalyses == 3
NewKeywords == 1

Handlers ==
    { [op |-> "saveAnalysisResult", entity |-> a] :
         a \in AnalysisInputs((StoredAnalyses + 1)..(StoredAnalyses + NewAnalyses), {100}) }
    \cup { [op |-> "saveKeyword", entity |-> k] : k \in KeywordInputs(1..NewKeywords) }

keyOf(op) ==
    IF op = "saveAnalysisResult" THEN STORAGE_KEYS.RECENT_ANALYSES ELSE STORAGE_KEYS.SAVED_KEYWORDS

\* the save of handler h, reading the storage st
saveOf(h, st, fault) ==
    IF h.op = "saveAnalysisResult"
    THEN saveAnalysisResult(st, h.entity, fault)
    ELSE saveKeyword(st, h.entity, "T1", fault)

\* a callback that interleaves with a running one
mayStartAnyTime(running) == TRUE

\* the functions of the store are synchronous (no await between the read
\* and the write) and the runtime runs one callback at a time, to its end
mayStart(running) == running = {}

InitSteps ==
    /\ env = "browser"
    /\ storage = [k \in AllKeys |->
                    IF k = STORAGE_KEYS.RECENT_ANALYSES
                    THEN JSONstringify([i \in 1..StoredAnalyses |->
                            [id |-> StoredAnalyses + 1 - i, payload |-> 100, dateAnalyzed |-> CallerStamp]])
                    ELSE NoItem]
    /\ lastCall = NoCall
    /\ scoreCall = NoScoreCall
    /\ ui = [page |-> "handlers", running |-> {}, done |-> <<>>]

startedHandlers ==
    { r.h : r \in ui.running } \cup { ui.done[i].h : i \in 1..Len(ui.done) }

\* a save starts: it reads its collection
SaveReads ==
    /\ mayStart(ui.running)
    /\ \E h \in Handlers \ startedHandlers, fault \in {"none", "quota"} :
          ui' = [ui EXCEPT !.running = @ \cup {[h |-> h, read |-> storage, fault |-> fault]}]
    /\ UNCHANGED <<env, storage, lastCall, scoreCall>>

\* a save ends: it writes back what it read, changed, unless setItem throws
SaveWrites ==
    /\ \E r \in ui.running :
          LET saved == saveOf(r.h, r.read, r.fault)
              key == keyOf(r.h.op)
          IN /\ storage' = IF saved.threw THEN storage
                           ELSE [storage EXCEPT ![key] = saved.storage[key]]
             /\ ui' = [ui EXCEPT !.running = @ \ {r},
                                 !.done = Append(@, [h |-> r.h, threw |-> saved.threw])]
    /\ UNCHANGED <<env, lastCall, scoreCall>>

NextSteps ==
    \/ SaveReads
    \/ SaveWrites

SpecSteps == InitSteps /\ [][NextSteps]_vars

\* the ids of the entities saved by the handlers that returned, newest first
RECURSIVE savedIds(_, _)
savedIds(done, op) ==
    IF done = <<>> THEN <<>>
    ELSE LET last == done[Len(done)]
             earlier == savedIds(SubSeq(done, 1, Len(done) - 1), op)
         IN IF last.h.op = op /\ ~last.threw THEN <<last.h.entity.id>> \o earlier ELSE earlier

\* C23: whatever the order in which the handlers save entities with
\* pairwise distinct new ids, no update is lost: every keyword saved is in
\* its collection, and the analyses collection holds the 10 most recently
\* saved analyses, newest first
C23_NoLostUpdate ==
    LET analyses == savedIds(ui.done, "saveAnalysisResult")
                        \o [i \in 1..StoredAnalyses |-> StoredAnalyses + 1 - i]
        expected == SubSeq(analyses, 1, IF Len(analyses) > MaxRecentAnalyses THEN MaxRecentAnalyses ELSE Len(analyses))
    IN ui.running = {}
         => /\ idSeq(collection(storage, STORAGE_KEYS.RECENT_ANALYSES)) = expected
            /\ \A i \in 1..Len(ui.done) :
                  ui.done[i].h.op = "saveKeyword" /\ ~ui.done[i].threw
                    => ui.done[i].h.entity.id \in idsOf(collection(storage, STORAGE_KEYS.SAVED_KEYWORDS))

\* all handlers ran, three analyses and a keyword were saved, and the
\* oldest analysis was dropped
C23_Witness ==
    /\ ui.running = {}
    /\ Len(ui.done) = Cardinality(Handlers)
    /\ Len(savedIds(ui.done, "saveAnalysisResult")) = 3
    /\ Len(collection(storage, STORAGE_KEYS.SAVED_KEYWORDS)) = 1
    /\ 1 \notin idsOf(collection(storage, STORAGE_KEYS.RECENT_ANALYSES))

(***************************************************************************)
(* The three configuration objects: a save writes the object under its     *)
(* key, whatever it holds.                                                  *)
(***************************************************************************)
\* objects a caller saves: the default, an edited one, and one without the
\* properties added by a later version of the application
CredentialsInputs ==
    { DefaultCredentials, sampleValue(STORAGE_KEYS.CREDENTIALS),
      [dataForSeo |-> [username |-> "u", password |-> "pw"]] }
ApiEndpointsInputs ==
    { DefaultApiEndpoints, sampleValue(STORAGE_KEYS.API_ENDPOINTS) }
UserSettingsInputs ==
    { DefaultUserSettings, sampleValue(STORAGE_KEYS.SETTINGS), [language |-> "de", country |-> "DE"] }

ConfigSaved(op, key, value, fault, r) ==
    /\ storage' = r.storage
    /\ lastCall' =
          [op |-> op, key |-> key, id |-> 0, entity |-> value, t1 |-> "", t2 |-> "",
           fault |-> fault, existed |-> storage[key] # NoItem, lenBefore |-> 0,
           threw |-> r.threw, result |-> <<>>]
    /\ UNCHANGED <<env, scoreCall, ui>>

CallSaveCredentials(credentials, fault) ==
    ConfigSaved("saveCredentials", STORAGE_KEYS.CREDENTIALS, credentials, fault,
                saveCredentials(storage, credentials, fault))

CallSaveApiEndpoints(endpoints, fault) ==
    ConfigSaved("saveApiEndpoints", STORAGE_KEYS.API_ENDPOINTS, endpoints, fault,
                saveApiEndpoints(storage, endpoints, fault))

CallSaveUserSettings(settings, fault) ==
    ConfigSaved("saveUserSettings", STORAGE_KEYS.SETTINGS, settings, fault,
                saveUserSettings(storage, settings, fault))

(***************************************************************************)
(* SpecFrame: one call of a save or delete function in a storage where     *)
(* each of the eight keys is absent or holds a value.                      *)
(***************************************************************************)
InitFrame ==
    /\ env \in {"browser", "server"}
    /\ \E present \in SUBSET AllKeys :
          storage = [k \in AllKeys |->
                        IF k \in present THEN JSONstringify(sampleValue(k)) ELSE NoItem]
    /\ lastCall = NoCall
    /\ scoreCall = NoScoreCall
    /\ ui = NoPage

NextFrame ==
    /\ lastCall = NoCall
    /\ \/ \E p \in ProjectInputs({1, 2}), t \in ClockPairs, f \in Faults :
             CallSaveProject(p, t[1], t[2], f)
       \/ \E id \in {1, 2}, f \in Faults : CallDeleteProject(id, f)
       \/ \E a \in AnalysisInputs({1, 2}, Scores), f \in Faults : CallSaveAnalysisResult(a, f)
       \/ \E id \in {1, 2}, f \in Faults : CallDeleteAnalysisResult(id, f)
       \/ \E k \in KeywordInputs({1, 2}), t1 \in Times, f \in Faults : CallSaveKeyword(k, t1, f)
       \/ \E id \in {1, 2}, f \in Faults : CallDeleteKeyword(id, f)
       \/ \E c \in ContentInputs({1, 2}), t \in ClockPairs, f \in Faults :
             CallSaveContent(c, t[1], t[2], f)
       \/ \E id \in {1, 2}, f \in Faults : CallDeleteContent(id, f)
       \/ \E a \in CompetitorInputs({1, 2}), t1 \in Times, f \in Faults :
             CallSaveCompetitorAnalysis(a, t1, f)
       \/ \E id \in {1, 2}, f \in Faults : CallDeleteCompetitorAnalysis(id, f)
       \/ \E c \in CredentialsInputs, f \in Faults : CallSaveCredentials(c, f)
       \/ \E e \in ApiEndpointsInputs, f \in Faults : CallSaveApiEndpoints(e, f)
       \/ \E s \in UserSettingsInputs, f \in Faults : CallSaveUserSettings(s, f)

SpecFrame == InitFrame /\ [][NextFrame]_vars

\* C24: a save or delete call leaves the stored value of every key other
\* than the key of its own collection or object unchanged
C24_WritesOnlyOwnKey ==
    [][\A k \in AllKeys \ {lastCall'.key} : storage'[k] = storage[k]]_vars

\* credentials were saved into a storage that holds a value under each of
\* the other seven keys
C24_Witness ==
    /\ lastCall.op = "saveCredentials"
    /\ completed(lastCall)
    /\ ~lastCall.existed
    /\ storage[STORAGE_KEYS.CREDENTIALS] = JSONstringify(lastCall.entity)
    /\ \A k \in AllKeys \ {STORAGE_KEYS.CREDENTIALS} : storage[k] = JSONstringify(sampleValue(k))

(***************************************************************************)
(* SpecLookup: the analyses saved one after the other by the analyzer      *)
(* page, each under a fresh id, and what the results page finds. The page  *)
(* keeps, next to the storage, a history of the calls made.                *)
(***************************************************************************)
\* the number of analyses saved under a new id
MaxNewIds == 12
\* the analyses that are saved again or deleted
TouchedIds == {1, 2}

\* the lookup of the results page: getRecentAnalyses().find(a => a.id === id)
findAnalysis(st, id) ==
    LET analyses == getRecentAnalyses(st, "none").value
    IN \E i \in 1..Len(analyses) : analyses[i].id = id

InitLookup ==
    /\ env = "browser"
    /\ storage = [k \in AllKeys |-> NoItem]
    /\ lastCall = NoCall
    /\ scoreCall = NoScoreCall
    /\ ui = [page |-> "results",
             minted |-> 0,          \* ids generated so far: 1..minted
             saved |-> <<>>,        \* ids of the analyses saved as new entries, oldest first
             deleteCalled |-> {},   \* ids deleteAnalysisResult was called with
             deleted |-> {}]        \* ids whose delete returned

\* an analysis is saved under a fresh id
SaveNewAnalysis ==
    /\ ui.minted < MaxNewIds
    /\ \E f \in {"none", "quota"} :
          LET id == ui.minted + 1
              r == saveAnalysisResult(storage, [id |-> id, payload |-> 100, dateAnalyzed |-> CallerStamp], f)
          IN /\ storage' = r.storage
             /\ ui' = [ui EXCEPT !.minted = id,
                                 !.saved = IF r.threw THEN @ ELSE Append(@, id)]
    /\ UNCHANGED <<env, lastCall, scoreCall>>

\* an analysis that is in the collection is saved again
SaveAnalysisAgain ==
    /\ \E a \in AnalysisInputs(TouchedIds, Scores), f \in {"none", "quota"} :
          /\ findAnalysis(storage, a.id)
          /\ storage' = saveAnalysisResult(storage, a, f).storage
    /\ UNCHANGED <<env, lastCall, scoreCall, ui>>

DeleteAnalysis ==
    /\ \E id \in TouchedIds, f \in {"none", "quota"} :
          LET r == deleteAnalysisResult(storage, id, f)
          IN /\ id <= ui.minted
             /\ id \notin ui.deleted
             /\ storage' = r.storage
             /\ ui' = [ui EXCEPT !.deleteCalled = @ \cup {id},
                                 !.deleted = IF r.threw THEN @ ELSE @ \cup {id}]
    /\ UNCHANGED <<env, lastCall, scoreCall>>

NextLookup ==
    \/ SaveNewAnalysis
    \/ SaveAnalysisAgain
    \/ DeleteAnalysis

SpecLookup == InitLookup /\ [][NextLookup]_vars

\* the analyses saved as new entries after the analysis a, oldest first
furtherSaved(a) ==
    LET at == CHOOSE i \in 1..Len(ui.saved) : ui.saved[i] = a
    IN SubSeq(ui.saved, at + 1, Len(ui.saved))

savedIdsOfRun == { ui.saved[i] : i \in 1..Len(ui.saved) }

\* C25: an analysis saved under a new id is found by the lookup until
\* deleteAnalysisResult is called with its id or 10 further analyses with
\* new ids have been saved, and after the 10th further one it is not found
C25_FoundUntilDeletedOrTenFurther ==
    \A a \in savedIdsOfRun :
        /\ a \notin ui.deleteCalled /\ Len(furtherSaved(a)) < 10 => findAnalysis(storage, a)
        /\ Len(furtherSaved(a)) >= 10 => ~findAnalysis(storage, a)

\* C25 as it holds: the analysis is found until its delete is called or 10
\* further analyses have been saved, and it is not found after the 10th
\* further one provided none of those ten was deleted
C25_FoundUntilDeletedOrTenFurtherKept ==
    \A a \in savedIdsOfRun :
        /\ a \notin ui.deleteCalled /\ Len(furtherSaved(a)) < 10 => findAnalysis(storage, a)
        /\ /\ Len(furtherSaved(a)) >= 10
           /\ \A i \in 1..10 : furtherSaved(a)[i] \notin ui.deleted
           => ~findAnalysis(storage, a)

\* ten analyses were saved after analysis 1, none of them was deleted, and
\* analysis 1 is gone while analysis 2 is still found
C25_Witness ==
    /\ 1 \in savedIdsOfRun
    /\ 1 \notin ui.deleteCalled
    /\ Len(furtherSaved(1)) = 10
    /\ ui.deleted = {}
    /\ ~findAnalysis(storage, 1)
    /\ findAnalysis(storage, 2)

(***************************************************************************)
(* SpecPage: one mount of the analyzer progress page (AnalyzerNew). The    *)
(* page is its React state and its pending timers; a step is a callback    *)
(* (the mount, a tick of an interval, a timeout) with the render and the   *)
(* effects that follow its state changes. Time passes in units of 500 ms  *)
(* and a timer fires when its delay has passed. A null taskId, url or      *)
(* error is the empty string (as falsy as null), a null analysisId is 0.  *)
(***************************************************************************)
\* delays of the timers, in units of 500 ms
ProgressEvery == 3
PollEvery == 6
CompletionAfter == 20
RedirectAfter == 3
NoTimer == -1

\* Math.random() * 4 + 1, a number from 1 up to 5, in whole percents
Increments == {1, 2, 4}

\* a progress capped at 100
nextProgressCapAt100(prev, increment) ==
    IF prev + increment < 100 THEN prev + increment ELSE 100

\* Math.min(prev + increment, 90)
nextProgress(prev, increment) ==
    IF prev + increment < 90 THEN prev + increment ELSE 90

\* the state of the component at its first render
FirstRender ==
    [page |-> "analyzer.new", alive |-> TRUE,
     taskId |-> "", url |-> "", status |-> "initializing", progress |-> 0, error |-> "", analysisId |-> 0,
     progressTimer |-> NoTimer, pollTimer |-> NoTimer, timeouts |-> {}, redirects |-> {},
     href |-> 0,              \* the analysis id window.location.href was set to (0: never set)
     minted |-> 0,            \* ids generated so far
     saveCalls |-> 0,         \* calls of saveAnalysisResult made
     analysisIdSets |-> 0]    \* calls of setAnalysisId made

\* what the loader left for the page, and the url query parameter
InitializationPaths == {"loader error", "loader task", "url only", "no url"}

\* the effect 'Initialize from loader data'
initialized(path) ==
    CASE path = "loader error" ->
            [FirstRender EXCEPT !.error = "Failed to start analysis task", !.status = "error"]
      [] path = "loader task" ->
            [FirstRender EXCEPT !.taskId = "task", !.url = "https://site", !.status = "analyzing"]
      [] path = "url only" -> [FirstRender EXCEPT !.url = "site"]
      [] path = "no url" -> [FirstRender EXCEPT !.error = "No URL provided", !.status = "error"]

\* the effects that run after a render, by their dependencies: the state
\* was prev at the last render and is next now
afterRender(prev, next) ==
    LET progressEffect ==
            IF prev.status = next.status THEN next
            ELSE [next EXCEPT
                    !.progressTimer = IF next.status = "analyzing" THEN ProgressEvery ELSE NoTimer,
                    !.progress = IF next.status = "complete" THEN 100 ELSE @]
        pollEffect ==
            IF <<prev.taskId, prev.status, prev.url>> = <<next.taskId, next.status, next.url>>
            THEN progressEffect
            ELSE [progressEffect EXCEPT
                    !.pollTimer = IF next.taskId # "" /\ next.status = "analyzing"
                                  THEN PollEvery ELSE NoTimer]
        redirectEffect ==
            IF /\ <<prev.status, prev.analysisId>> # <<next.status, next.analysisId>>
               /\ next.status = "complete"
               /\ next.analysisId # 0
            THEN [pollEffect EXCEPT
                    !.redirects = @ \cup {[in |-> RedirectAfter, id |-> next.analysisId]}]
            ELSE pollEffect
    IN redirectEffect

Mount ==
    /\ ui = NoPage
    /\ env = "browser"
    /\ \E path \in InitializationPaths : ui' = afterRender(FirstRender, initialized(path))
    /\ UNCHANGED <<env, storage, lastCall, scoreCall>>

\* the interval of the progress animation
ProgressTick ==
    /\ ui # NoPage
    /\ ui.alive
    /\ ui.progressTimer = 0
    /\ \E increment \in Increments :
          ui' = [ui EXCEPT !.progress = nextProgress(@, increment), !.progressTimer = ProgressEvery]
    /\ UNCHANGED <<env, storage, lastCall, scoreCall>>

\* the polling interval: each tick schedules a completion timeout
PollTick ==
    /\ ui # NoPage
    /\ ui.alive
    /\ ui.pollTimer = 0
    /\ ui' = [ui EXCEPT !.timeouts = @ \cup {CompletionAfter}, !.pollTimer = PollEvery]
    /\ UNCHANGED <<env, storage, lastCall, scoreCall>>

\* a completion timeout: clearInterval, generateId, saveAnalysisResult,
\* setAnalysisId, setStatus; an error of the save ends the callback
CompletionTimeout ==
    /\ ui # NoPage
    /\ ui.alive
    /\ 0 \in ui.timeouts
    /\ \E fault \in Faults, score \in {55, 84} :
          LET id == ui.minted + 1
              cleared == [ui EXCEPT !.timeouts = @ \ {0}, !.pollTimer = NoTimer, !.minted = id]
              saved == IF ui.url # ""
                       THEN saveAnalysisResult(storage,
                                [id |-> id, payload |-> score, dateAnalyzed |-> "T1"], fault)
                       ELSE [threw |-> FALSE, storage |-> storage]
              called == [cleared EXCEPT !.saveCalls = IF ui.url # "" THEN @ + 1 ELSE @]
          IN /\ storage' = saved.storage
             /\ ui' = IF saved.threw THEN called
                      ELSE afterRender(called,
                              [called EXCEPT !.analysisId = id, !.status = "complete",
                                             !.analysisIdSets = @ + 1])
    /\ UNCHANGED <<env, lastCall, scoreCall>>

\* the timeout of the redirect effect
RedirectTimeout ==
    /\ ui # NoPage
    /\ ui.alive
    /\ \E r \in ui.redirects :
          /\ r.in = 0
          /\ ui' = [ui EXCEPT !.redirects = @ \ {r}, !.href = r.id]
    /\ UNCHANGED <<env, storage, lastCall, scoreCall>>

\* the navigation started by the redirect commits: the page is unloaded
\* and its timers are gone; how long this takes is up to the network
Unload ==
    /\ ui # NoPage
    /\ ui.alive
    /\ ui.href # 0
    /\ ui' = [ui EXCEPT !.alive = FALSE]
    /\ UNCHANGED <<env, storage, lastCall, scoreCall>>

pendingDelays ==
    {ui.progressTimer, ui.pollTimer} \cup ui.timeouts \cup { r.in : r \in ui.redirects }

\* 500 ms pass: no timer is due and some timer is pending
TimePasses ==
    /\ ui # NoPage
    /\ ui.alive
    /\ 0 \notin pendingDelays
    /\ pendingDelays # {NoTimer}
    /\ ui' = [ui EXCEPT
                !.progressTimer = IF @ = NoTimer THEN @ ELSE @ - 1,
                !.pollTimer = IF @ = NoTimer THEN @ ELSE @ - 1,
                !.timeouts = { t - 1 : t \in @ },
                !.redirects = { [r EXCEPT !.in = @ - 1] : r \in @ }]
    /\ UNCHANGED <<env, storage, lastCall, scoreCall>>

NextPage ==
    \/ Mount
    \/ ProgressTick
    \/ PollTick
    \/ CompletionTimeout
    \/ RedirectTimeout
    \/ Unload
    \/ TimePasses

SpecPage == Init /\ [][NextPage]_vars

\* C26: one run of the page calls saveAnalysisResult at most once and sets
\* analysisId at most once
C26_AtMostOneSave ==
    ui # NoPage => ui.saveCalls <= 1 /\ ui.analysisIdSets <= 1

\* what holds of C26: until the first redirect timeout has fired, one
\* result at most was saved and analysisId was set once at most
C26_OneSaveBeforeRedirect ==
    ui # NoPage /\ ui.href = 0 => ui.analysisIdSets <= 1

\* a second completion timeout saved a second result under a second id
\* while the page was waiting for the navigation to commit
C26_Witness ==
    /\ ui # NoPage
    /\ ui.saveCalls = 2
    /\ ui.analysisIdSets = 2
    /\ ui.analysisId = 2
    /\ ui.href = 1
    /\ Len(collection(storage, STORAGE_KEYS.RECENT_ANALYSES)) = 2

\* C27: progress starts at 0, never decreases, is at most 90 while status
\* is 'analyzing', is 100 once status is 'complete', and is never above 100
C27_ProgressBounds ==
    /\ [](ui # NoPage =>
            /\ ui.progress >= 0 /\ ui.progress <= 100
            /\ ui.status = "initializing" => ui.progress = 0
            /\ ui.status = "analyzing" => ui.progress <= 90
            /\ ui.status = "complete" => ui.progress = 100)
    /\ [][IF ui = NoPage THEN ui'.progress = 0 ELSE ui'.progress >= ui.progress]_vars

\* the animation has reached its cap while the page is still analyzing
C27_Witness ==
    /\ ui # NoPage
    /\ ui.status = "analyzing"
    /\ ui.progress = 90
    /\ ui.progressTimer = ProgressEvery

(***************************************************************************)
(* SpecPageFair: the page with its timers firing: time passes while a      *)
(* timer is pending, and a timer that is due fires.                        *)
(***************************************************************************)
SpecPageFair ==
    /\ SpecPage
    /\ WF_vars(Mount)
    /\ WF_vars(TimePasses)
    /\ WF_vars(ProgressTick)
    /\ WF_vars(PollTick)
    /\ WF_vars(CompletionTimeout)
    /\ WF_vars(RedirectTimeout)

statusIsFinal == ui # NoPage /\ ui.status \in {"complete", "error"}

\* C28: every mount eventually reaches status 'complete' or 'error'; once
\* reached, the status never changes again; the redirect happens only
\* after status 'complete' with a non-null analysisId
C28_ReachesCompleteOrError ==
    /\ (ui # NoPage) ~> statusIsFinal
    /\ [][statusIsFinal => ui'.status = ui.status]_vars
    /\ [](ui # NoPage /\ ui.href # 0 => ui.status = "complete" /\ ui.analysisId # 0)

\* what holds of C28: a final status never changes, the redirect happens
\* only after 'complete' with an analysisId, and the mounts with an error
\* from the loader or without a url are in status 'error' at once
C28_StatusFinalAndRedirectGuarded ==
    /\ [][statusIsFinal => ui'.status = ui.status]_vars
    /\ [](ui # NoPage /\ ui.href # 0 => ui.status = "complete" /\ ui.analysisId # 0)
    /\ [](ui # NoPage /\ ui.error # "" => ui.status = "error")

\* the page was reached by client-side navigation with a url: it is in
\* status 'initializing' with no timer pending, and nothing can change it
C28_Witness ==
    /\ ui # NoPage
    /\ ui.status = "initializing"
    /\ ui.url # ""
    /\ ui.taskId = ""
    /\ pendingDelays = {NoTimer}
    /\ ~ENABLED NextPage

(***************************************************************************)
(* SpecSettings: the settings page. Its mount effect loads the three       *)
(* configuration objects into the form, the change handlers edit the form  *)
(* and handleSaveSettings saves it. The page keeps, next to the storage,   *)
(* the object last saved under each key.                                   *)
(***************************************************************************)
\* success-message timers pending at a time
MaxClearTimers == 2

ConfigKeys == {STORAGE_KEYS.CREDENTIALS, STORAGE_KEYS.API_ENDPOINTS, STORAGE_KEYS.SETTINGS}

NotSaved == [saved |-> FALSE]
Saved(value) == [saved |-> TRUE, value |-> value]

SavedMessage == "Settings saved successfully!"
ErrorMessage == "Error saving settings. Please try again."

\* the page at its first render: the form holds the default objects
SettingsFirstRender ==
    [page |-> "settings", step |-> "render",
     credentials |-> DefaultCredentials, apiEndpoints |-> DefaultApiEndpoints,
     settings |-> DefaultUserSettings,
     isSaving |-> FALSE, saveMessage |-> "", clearTimers |-> 0,
     faults |-> <<"none", "none", "none">>,    \* how the storage accesses of the last step went
     lastSaved |-> [k \in ConfigKeys |-> NotSaved]]

\* the page is opened (again): the mount effect reads the three objects
OpenSettingsPage ==
    /\ env = "browser"
    /\ \E f \in Faults :
          LET fresh == IF ui = NoPage THEN SettingsFirstRender
                       ELSE [SettingsFirstRender EXCEPT !.lastSaved = ui.lastSaved]
          IN ui' = [fresh EXCEPT
                      !.step = "mount",
                      !.faults = <<f, f, f>>,
                      !.settings = getUserSettings(storage, f).value,
                      !.credentials = getCredentials(storage, f).value,
                      !.apiEndpoints = getApiEndpoints(storage, f).value]
    /\ UNCHANGED <<env, storage, lastCall, scoreCall>>

\* handleCredentialsChange, handleEndpointsChange, handleSettingsChange
ChangeForm ==
    /\ ui # NoPage
    /\ \E c \in CredentialsInputs, e \in ApiEndpointsInputs, s \in UserSettingsInputs :
          ui' = [ui EXCEPT !.step = "change", !.credentials = c, !.apiEndpoints = e, !.settings = s]
    /\ UNCHANGED <<env, storage, lastCall, scoreCall>>

\* handleSaveSettings: the three saves in a try, the message, the timer
HandleSaveSettings ==
    /\ ui # NoPage
    /\ ui.clearTimers < MaxClearTimers
    /\ \E f1, f2, f3 \in {"none", "quota"} :
          LET first == saveCredentials(storage, ui.credentials, f1)
              second == IF first.threw THEN first
                        ELSE saveApiEndpoints(first.storage, ui.apiEndpoints, f2)
              third == IF second.threw THEN second
                       ELSE saveUserSettings(second.storage, ui.settings, f3)
              saved == [k \in ConfigKeys |->
                          CASE k = STORAGE_KEYS.CREDENTIALS ->
                                  IF first.threw THEN ui.lastSaved[k] ELSE Saved(ui.credentials)
                            [] k = STORAGE_KEYS.API_ENDPOINTS ->
                                  IF second.threw THEN ui.lastSaved[k] ELSE Saved(ui.apiEndpoints)
                            [] k = STORAGE_KEYS.SETTINGS ->
                                  IF third.threw THEN ui.lastSaved[k] ELSE Saved(ui.settings)]
          IN /\ storage' = third.storage
             /\ ui' = [ui EXCEPT
                         !.step = "handleSaveSettings",
                         !.faults = <<f1, f2, f3>>,
                         !.lastSaved = saved,
                         !.saveMessage = IF third.threw THEN ErrorMessage ELSE SavedMessage,
                         !.clearTimers = IF third.threw THEN @ ELSE @ + 1,
                         !.isSaving = FALSE]
    /\ UNCHANGED <<env, lastCall, scoreCall>>

\* the timeout that clears the success message after 3 seconds
ClearSaveMessage ==
    /\ ui # NoPage
    /\ ui.clearTimers > 0
    /\ ui' = [ui EXCEPT !.step = "timeout", !.saveMessage = "", !.clearTimers = @ - 1]
    /\ UNCHANGED <<env, storage, lastCall, scoreCall>>

NextSettings ==
    \/ OpenSettingsPage
    \/ ChangeForm
    \/ HandleSaveSettings
    \/ ClearSaveMessage

SpecSettings == Init /\ [][NextSettings]_vars

\* the writes of handleSaveSettings in their order: key and form field
settingsWrites ==
    << [key |-> STORAGE_KEYS.CREDENTIALS, field |-> "credentials"],
       [key |-> STORAGE_KEYS.API_ENDPOINTS, field |-> "apiEndpoints"],
       [key |-> STORAGE_KEYS.SETTINGS, field |-> "settings"] >>

\* C29: handleSaveSettings writes credentials, then API endpoints, then
\* user settings; the success message is shown only if all three writes
\* succeeded; if a write fails the error message is shown, the writes after
\* it are skipped, the writes before it stay persisted, and isSaving is
\* false at the end in every outcome
C29_SaveSettingsOutcome ==
    [][ui # NoPage /\ ui'.step = "handleSaveSettings" =>
          LET failed == { i \in 1..3 : ui'.faults[i] # "none" }
              done == { i \in 1..3 : \A j \in failed : i < j }
          IN /\ \A i \in done :
                   storage'[settingsWrites[i].key] = JSONstringify(ui[settingsWrites[i].field])
             /\ \A i \in (1..3) \ done :
                   storage'[settingsWrites[i].key] = storage[settingsWrites[i].key]
             /\ ui'.saveMessage = IF failed = {} THEN SavedMessage ELSE ErrorMessage
             /\ ui'.isSaving = FALSE]_vars

\* the write of the API endpoints failed: the error message is shown, the
\* credentials are persisted, the endpoints and the settings of the form
\* are not
C29_Witness ==
    /\ ui # NoPage
    /\ ui.step = "handleSaveSettings"
    /\ ui.faults = <<"none", "quota", "none">>
    /\ ui.saveMessage = ErrorMessage
    /\ storage[STORAGE_KEYS.CREDENTIALS] = JSONstringify(ui.credentials)
    /\ storage[STORAGE_KEYS.API_ENDPOINTS] # JSONstringify(ui.apiEndpoints)
    /\ storage[STORAGE_KEYS.SETTINGS] = NoItem
    /\ ui.settings # DefaultUserSettings

====
